---------------------------- MODULE Spec2Model ----------------------------
(***************************************************************************)
(* Model of the resilient HTTP retrieval layer of Figma-Context-MCP:       *)
(*   - shouldBypassProxy / getDispatcher / fetchWithRetry                  *)
(*     (utils/fetch-with-retry, src/unnamed/part_000 lines 1-127)          *)
(*   - the module-level dispatcher of src/types/fetch-with-proxy.d.ts      *)
(*                                                                         *)
(* Text is modelled as a sequence of one-character strings so that split,  *)
(* trim, startsWith, endsWith, toLowerCase, includes, URL parsing and JSON *)
(* parsing are computed instead of assumed.  A URL text starts with a      *)
(* scheme token ("https://", "http://", "data:") followed by characters.   *)
(***************************************************************************)
EXTENDS Integers, Sequences, FiniteSets, TLC

(***************************************************************************)
(* Bounds of the model                                                     *)
(***************************************************************************)
\* longest NO_PROXY text enumerated by the pure shouldBypassProxy check
MaxNoProxyLen == 4
\* number of resolver requests made one after another
MaxCalls == 2
\* number of proxy-related environment variables that are set at one time
MaxEnvSet == 2
\* number of entries of a headers record
MaxHeaders == 2
\* number of fetchWithRetry calls in flight together
MaxInFlight == 2
\* number of client events between the operations of the Redis service
MaxEvents == 3

(***************************************************************************)
(* JavaScript string primitives                                            *)
(***************************************************************************)
ToLowerChar(c) ==
  CASE c = "A" -> "a"
    [] c = "B" -> "b"
    [] c = "E" -> "e"
    [] c = "F" -> "f"
    [] c = "I" -> "i"
    [] c = "L" -> "l"
    [] c = "O" -> "o"
    [] c = "R" -> "r"
    [] OTHER -> c

ToLowerCase(s) == [i \in 1..Len(s) |-> ToLowerChar(s[i])]

StartsWith(s, p) == Len(p) <= Len(s) /\ SubSeq(s, 1, Len(p)) = p

EndsWith(s, p) == Len(p) <= Len(s) /\ SubSeq(s, Len(s) - Len(p) + 1, Len(s)) = p

Includes(s, sub) ==
  \E i \in 0..(Len(s) - Len(sub)) : SubSeq(s, i + 1, i + Len(sub)) = sub

Slice1(s) == SubSeq(s, 2, Len(s))

IsSpace(c) == c = " "

RECURSIVE TrimStart(_)
TrimStart(s) ==
  IF s # <<>> /\ IsSpace(Head(s)) THEN TrimStart(Tail(s)) ELSE s

RECURSIVE TrimEnd(_)
TrimEnd(s) ==
  IF s # <<>> /\ IsSpace(s[Len(s)]) THEN TrimEnd(SubSeq(s, 1, Len(s) - 1)) ELSE s

Trim(s) == TrimEnd(TrimStart(s))

\* String.prototype.split(sep) for a one-character separator: always at
\* least one piece, empty pieces are kept ("".split(",") is [""]).
RECURSIVE SplitAcc(_, _, _)
SplitAcc(s, sep, cur) ==
  IF s = <<>> THEN <<cur>>
  ELSE IF Head(s) = sep THEN <<cur>> \o SplitAcc(Tail(s), sep, <<>>)
  ELSE SplitAcc(Tail(s), sep, Append(cur, Head(s)))

Split(s, sep) == SplitAcc(s, sep, <<>>)

\* all sequences over S of length at most n
RECURSIVE SeqsUpTo(_, _)
SeqsUpTo(S, n) ==
  IF n = 0 THEN {<<>>}
  ELSE LET shorter == SeqsUpTo(S, n - 1)
       IN  shorter \cup {Append(s, c) : s \in {t \in shorter : Len(t) = n - 1}, c \in S}

(***************************************************************************)
(* new URL(text): WHATWG parsing restricted to what the callers read, the  *)
(* hostname.  A text without a scheme, an http(s) URL with an empty host   *)
(* or a forbidden host character throws; the host of an http(s) URL is     *)
(* lower-cased; an opaque "data:" URL has the empty hostname.              *)
(***************************************************************************)
HostChars == {"a", "b", "A", "B", "."}

RECURSIVE UpToSlash(_)
UpToSlash(s) ==
  IF s = <<>> \/ Head(s) = "/" THEN <<>> ELSE <<Head(s)>> \o UpToSlash(Tail(s))

ParseURL(text) ==
  IF text = <<>> THEN [ok |-> FALSE, hostname |-> <<>>]
  ELSE IF Head(text) \in {"https://", "http://"} THEN
    LET host == UpToSlash(Tail(text))
    IN  IF host = <<>> \/ \E i \in DOMAIN host : host[i] \notin HostChars
        THEN [ok |-> FALSE, hostname |-> <<>>]
        ELSE [ok |-> TRUE, hostname |-> ToLowerCase(host)]
  ELSE IF Head(text) = "data:" THEN [ok |-> TRUE, hostname |-> <<>>]
  ELSE [ok |-> FALSE, hostname |-> <<>>]

(***************************************************************************)
(* JSON.parse / response.json() on the JSON subset "number or flat array   *)
(* of numbers, with optional surrounding blanks".  The parsed value is a   *)
(* tagged record, never the text itself.                                   *)
(***************************************************************************)
Digits == {"1", "2"}

DigitVal(c) == IF c = "1" THEN 1 ELSE 2

RECURSIVE NumVal(_)
NumVal(s) == IF s = <<>> THEN 0 ELSE 10 * NumVal(SubSeq(s, 1, Len(s) - 1)) + DigitVal(s[Len(s)])

IsNumberText(s) == s # <<>> /\ \A i \in DOMAIN s : s[i] \in Digits

JsonNum(n) == [t |-> "num", n |-> n, items |-> <<>>]

JsonArr(items) == [t |-> "arr", n |-> 0, items |-> items]

JSONParse(text) ==
  LET s == Trim(text)
  IN  IF IsNumberText(s) THEN [ok |-> TRUE, value |-> JsonNum(NumVal(s))]
      ELSE IF Len(s) >= 2 /\ Head(s) = "[" /\ s[Len(s)] = "]" THEN
        LET inner == SubSeq(s, 2, Len(s) - 1)
            parts == Split(inner, ",")
            elems == [i \in DOMAIN parts |-> Trim(parts[i])]
        IN  IF Trim(inner) = <<>> THEN [ok |-> TRUE, value |-> JsonArr(<<>>)]
            ELSE IF \A i \in DOMAIN elems : IsNumberText(elems[i])
                 THEN [ok |-> TRUE,
                       value |-> JsonArr([i \in DOMAIN elems |-> NumVal(elems[i])])]
                 ELSE [ok |-> FALSE, value |-> JsonNum(0)]
      ELSE [ok |-> FALSE, value |-> JsonNum(0)]

(***************************************************************************)
(* shouldBypassProxy(url, noProxy)                                         *)
(***************************************************************************)
\* the callback with the bare-domain alternative of a ".domain" pattern left out
PatternMatchesSuffixOnly(hostname, pattern) ==
  IF pattern = <<"*">> THEN TRUE
  ELSE IF StartsWith(pattern, <<".">>)
       THEN EndsWith(hostname, pattern)
       ELSE hostname = pattern

\* the callback given to noProxyList.some
PatternMatches(hostname, pattern) ==
  IF pattern = <<"*">> THEN TRUE
  ELSE IF StartsWith(pattern, <<".">>)
       THEN hostname = Slice1(pattern) \/ EndsWith(hostname, pattern)
       ELSE hostname = pattern

NoProxyListOf(noProxy) ==
  LET parts == Split(noProxy, ",")
  IN  [i \in DOMAIN parts |-> Trim(parts[i])]

\* result: the boolean returned, and whether the catch branch ran (it logs
\* "Error checking NO_PROXY rules:" through console.error)
shouldBypassProxy(url, noProxy) ==
  LET parsed == ParseURL(url)
  IN  IF parsed.ok
      THEN [bypass |-> \E i \in DOMAIN NoProxyListOf(noProxy) :
                          PatternMatches(parsed.hostname, NoProxyListOf(noProxy)[i]),
            logged |-> FALSE]
      ELSE [bypass |-> FALSE, logged |-> TRUE]

(***************************************************************************)
(* process.env: a variable is either undefined or holds a text             *)
(***************************************************************************)
Undefined == [set |-> FALSE, v |-> <<>>]

Str(t) == [set |-> TRUE, v |-> t]

\* a ?? b
Nullish(a, b) == IF a.set THEN a ELSE b

\* JavaScript truthiness of string | undefined
Truthy(x) == x.set /\ x.v # <<>>

ProxyA == <<"http://", "a">>

ProxyB == <<"http://", "b">>

\* a proxy setting that is not a URL: new ProxyAgent(uri) throws on it
BadProxy == <<"a">>

EnvVars == {"HTTPS_PROXY", "HTTP_PROXY", "https_proxy", "http_proxy", "NO_PROXY", "no_proxy"}

EnvValues(name) ==
  CASE name = "HTTPS_PROXY" -> {Undefined, Str(<<>>), Str(ProxyA)}
    [] name = "HTTP_PROXY"  -> {Undefined, Str(ProxyB), Str(BadProxy)}
    [] name = "https_proxy" -> {Undefined, Str(ProxyA)}
    [] name = "http_proxy"  -> {Undefined, Str(ProxyB)}
    [] name = "NO_PROXY"    -> {Undefined, Str(<<>>), Str(<<"*">>), Str(<<".", "a", ",", " ", "b", ".", "b">>)}
    [] name = "no_proxy"    -> {Undefined, Str(<<"a", ".", "b">>)}

Envs == {e \in [EnvVars -> UNION {EnvValues(n) : n \in EnvVars}] :
           \A n \in EnvVars : e[n] \in EnvValues(n)}

(***************************************************************************)
(* undici agents.  new ProxyAgent(uri) parses uri and throws when it is    *)
(* not a URL; new Agent() never throws.                                    *)
(***************************************************************************)
DirectAgent == [kind |-> "direct", uri |-> <<>>]

ProxyAgentOf(uri) == [kind |-> "proxy", uri |-> uri]

ProxyAgentThrows(uri) == ~ParseURL(uri).ok \/ Head(uri) = "data:"

\* getDispatcher with the NO_PROXY test placed before the PROXY test
getDispatcherNoProxyFirst(url, e) ==
  LET PROXY    == Nullish(e["HTTPS_PROXY"], e["HTTP_PROXY"])
      NO_PROXY == Nullish(e["NO_PROXY"], e["no_proxy"])
      sbp      == shouldBypassProxy(url, NO_PROXY.v)
  IN  IF Truthy(NO_PROXY) /\ sbp.bypass
      THEN [agent |-> DirectAgent, threw |-> FALSE, evals |-> 1,
            logged |-> sbp.logged, constructed |-> 0]
      ELSE IF ~Truthy(PROXY)
      THEN [agent |-> DirectAgent, threw |-> FALSE,
            evals |-> IF Truthy(NO_PROXY) THEN 1 ELSE 0,
            logged |-> Truthy(NO_PROXY) /\ sbp.logged, constructed |-> 0]
      ELSE IF ProxyAgentThrows(PROXY.v)
      THEN [agent |-> DirectAgent, threw |-> TRUE,
            evals |-> IF Truthy(NO_PROXY) THEN 1 ELSE 0,
            logged |-> Truthy(NO_PROXY) /\ sbp.logged, constructed |-> 0]
      ELSE [agent |-> ProxyAgentOf(PROXY.v), threw |-> FALSE,
            evals |-> IF Truthy(NO_PROXY) THEN 1 ELSE 0,
            logged |-> Truthy(NO_PROXY) /\ sbp.logged, constructed |-> 1]

\* getDispatcher with line 49 reading only NO_PROXY && ..., the result of
\* shouldBypassProxy dropped
getDispatcherBypassWhenListed(url, e) ==
  LET PROXY    == Nullish(e["HTTPS_PROXY"], e["HTTP_PROXY"])
      NO_PROXY == Nullish(e["NO_PROXY"], e["no_proxy"])
      sbp      == shouldBypassProxy(url, NO_PROXY.v)
  IN  IF ~Truthy(PROXY)
      THEN [agent |-> DirectAgent, threw |-> FALSE, evals |-> 0,
            logged |-> FALSE, constructed |-> 0]
      ELSE IF Truthy(NO_PROXY)
      THEN [agent |-> DirectAgent, threw |-> FALSE, evals |-> 1,
            logged |-> sbp.logged, constructed |-> 0]
      ELSE IF ProxyAgentThrows(PROXY.v)
      THEN [agent |-> DirectAgent, threw |-> TRUE, evals |-> 0,
            logged |-> FALSE, constructed |-> 0]
      ELSE [agent |-> ProxyAgentOf(PROXY.v), threw |-> FALSE, evals |-> 0,
            logged |-> FALSE, constructed |-> 1]

(***************************************************************************)
(* getDispatcher(url): undefined (direct) or a new ProxyAgent.             *)
(*   threw       new ProxyAgent(PROXY) threw                               *)
(*   evals       number of shouldBypassProxy evaluations                   *)
(*   logged      console.error ran in shouldBypassProxy                    *)
(*   constructed number of agents constructed by the call                  *)
(***************************************************************************)
getDispatcher(url, e) ==
  LET PROXY    == Nullish(e["HTTPS_PROXY"], e["HTTP_PROXY"])
      NO_PROXY == Nullish(e["NO_PROXY"], e["no_proxy"])
      sbp      == shouldBypassProxy(url, NO_PROXY.v)
  IN  IF ~Truthy(PROXY)
      THEN [agent |-> DirectAgent, threw |-> FALSE, evals |-> 0,
            logged |-> FALSE, constructed |-> 0]
      ELSE IF Truthy(NO_PROXY) /\ sbp.bypass
      THEN [agent |-> DirectAgent, threw |-> FALSE, evals |-> 1,
            logged |-> sbp.logged, constructed |-> 0]
      ELSE IF ProxyAgentThrows(PROXY.v)
      THEN [agent |-> DirectAgent, threw |-> TRUE,
            evals |-> IF Truthy(NO_PROXY) THEN 1 ELSE 0,
            logged |-> Truthy(NO_PROXY) /\ sbp.logged, constructed |-> 0]
      ELSE [agent |-> ProxyAgentOf(PROXY.v), threw |-> FALSE,
            evals |-> IF Truthy(NO_PROXY) THEN 1 ELSE 0,
            logged |-> Truthy(NO_PROXY) /\ sbp.logged, constructed |-> 1]

(***************************************************************************)
(* src/types/fetch-with-proxy.d.ts: module-level constants, evaluated once *)
(* when the module is loaded, and dispatcher.dispatch                      *)
(***************************************************************************)
RECURSIVE FilterNonEmpty(_)
FilterNonEmpty(list) ==
  IF list = <<>> THEN <<>>
  ELSE IF Head(list) # <<>> THEN <<Head(list)>> \o FilterNonEmpty(Tail(list))
  ELSE FilterNonEmpty(Tail(list))

ModPROXY(e) ==
  Nullish(e["HTTPS_PROXY"], Nullish(e["HTTP_PROXY"], Nullish(e["https_proxy"], e["http_proxy"])))

ModNO_PROXY_LIST(e) ==
  FilterNonEmpty(NoProxyListOf(Nullish(e["NO_PROXY"], Nullish(e["no_proxy"], Str(<<>>))).v))

inNoProxy(host, list) ==
  \E i \in DOMAIN list :
     \/ list[i] = <<"*">>
     \/ host = list[i]
     \/ (StartsWith(list[i], <<".">>) /\ (host = Slice1(list[i]) \/ EndsWith(host, list[i])))

\* the state of the loaded module: loaded is FALSE when new ProxyAgent(PROXY)
\* threw during module evaluation
ModuleLoad(e) ==
  LET P == ModPROXY(e)
  IN  [PROXY |-> P,
       NO_PROXY_LIST |-> ModNO_PROXY_LIST(e),
       loaded |-> ~(Truthy(P) /\ ProxyAgentThrows(P.v)),
       via |-> IF Truthy(P) /\ ~ProxyAgentThrows(P.v) THEN ProxyAgentOf(P.v) ELSE DirectAgent,
       constructed |-> IF Truthy(P) /\ ~ProxyAgentThrows(P.v) THEN 2 ELSE 1]

\* dispatcher.dispatch(opts, handler) with opts.origin a string: the agent
\* the request is handed to.  The no-proxy rules are consulted on every
\* request (evals); the catch block is empty, so nothing is logged and
\* nothing is thrown when new URL(origin) throws.
dispatch(origin, m) ==
  LET parsed == ParseURL(origin)
  IN  IF parsed.ok /\ inNoProxy(parsed.hostname, m.NO_PROXY_LIST)
      THEN [agent |-> DirectAgent, threw |-> FALSE, evals |-> 1,
            logged |-> FALSE, constructed |-> 0]
      ELSE [agent |-> m.via, threw |-> FALSE, evals |-> 1,
            logged |-> FALSE, constructed |-> 0]

(***************************************************************************)
(* fetchWithRetry: values, errors, transport outcomes                      *)
(***************************************************************************)
NoJson == [t |-> "none", n |-> 0, items |-> <<>>]

\* an Error object: the place that created it and what its message carries
MkError(site, status, statusText) ==
  [site |-> site, status |-> status, statusText |-> statusText]

NoError == MkError("none", 0, "")

\* sites of the primary path / of the fallback path
PrimarySites == {"ProxyAgent", "fetch", "status", "response.json"}

FallbackSites == {"exec", "stderr", "empty stdout", "JSON.parse"}

StatusTextOf(status) ==
  CASE status = 200 -> "OK"
    [] status = 299 -> "Custom"
    [] status = 304 -> "Not Modified"
    [] status = 404 -> "Not Found"
    [] OTHER -> ""

\* Response.ok written as status < 400
ResponseOkBelow400(status) == status >= 200 /\ status < 400

\* Response.ok
ResponseOk(status) == status >= 200 /\ status <= 299

Texts ==
  { <<>>, <<"1">>, <<" ", "[", "1", ",", " ", "2", "]">>, <<"[", "1">>, <<" ">>, <<"x">> }

StderrTexts ==
  { <<>>, <<"5", "%">>, <<"F", "a", "I", "l">>, <<"x", "E", "R", "R", "O", "R">>,
    <<"e", "r", "r", "o">> }

\* what the in-process fetch gives: a rejection, or a response
PrimaryReplies ==
  {[rejected |-> TRUE, status |-> 0, statusText |-> "", body |-> <<>>]} \cup
  {[rejected |-> FALSE, status |-> st, statusText |-> StatusTextOf(st), body |-> b] :
      st \in {200, 299, 304, 404}, b \in Texts} \cup
  {[rejected |-> FALSE, status |-> 404, statusText |-> "", body |-> <<"1">>]}

\* what promisify(exec) gives: a rejection (spawn failure or non-zero exit,
\* the output travels on the error object), or {stdout, stderr}
ExecReplies ==
  {[rejected |-> TRUE, stdout |-> o, stderr |-> e] :
      o \in {<<>>, <<"1">>}, e \in {<<>>, <<"5", "%">>}} \cup
  {[rejected |-> FALSE, stdout |-> o, stderr |-> e] : o \in Texts, e \in StderrTexts}

NoReply == [rejected |-> FALSE, status |-> 0, statusText |-> "", body |-> <<>>]

NoExec == [rejected |-> FALSE, stdout |-> <<>>, stderr |-> <<>>]

\* PrimaryResult with the success test written as status === 200
PrimaryResultOnly200(reply) ==
  IF reply.rejected THEN [ok |-> FALSE, value |-> NoJson, error |-> MkError("fetch", 0, "")]
  ELSE IF reply.status # 200
  THEN [ok |-> FALSE, value |-> NoJson,
        error |-> MkError("status", reply.status, reply.statusText)]
  ELSE IF ~JSONParse(reply.body).ok
  THEN [ok |-> FALSE, value |-> NoJson, error |-> MkError("response.json", 0, "")]
  ELSE [ok |-> TRUE, value |-> JSONParse(reply.body).value, error |-> NoError]

\* lines 62-67: what the try block does with the reply of fetch
PrimaryResult(reply) ==
  IF reply.rejected THEN [ok |-> FALSE, value |-> NoJson, error |-> MkError("fetch", 0, "")]
  ELSE IF ~ResponseOk(reply.status)
  THEN [ok |-> FALSE, value |-> NoJson,
        error |-> MkError("status", reply.status, reply.statusText)]
  ELSE IF ~JSONParse(reply.body).ok
  THEN [ok |-> FALSE, value |-> NoJson, error |-> MkError("response.json", 0, "")]
  ELSE [ok |-> TRUE, value |-> JSONParse(reply.body).value, error |-> NoError]

\* the test on stderr without toLowerCase()
StderrIsErrorCaseSensitive(stdout, stderr) ==
  stderr # <<>> /\
    (\/ stdout = <<>>
     \/ Includes(stderr, <<"e", "r", "r", "o", "r">>)
     \/ Includes(stderr, <<"f", "a", "i", "l">>))

\* the test on stderr of lines 86-95
StderrIsError(stdout, stderr) ==
  stderr # <<>> /\
    (\/ stdout = <<>>
     \/ Includes(ToLowerCase(stderr), <<"e", "r", "r", "o", "r">>)
     \/ Includes(ToLowerCase(stderr), <<"f", "a", "i", "l">>))

\* FallbackResult with every non-empty stderr treated as a failure
FallbackResultAnyStderr(ex) ==
  IF ex.rejected
  THEN [ok |-> FALSE, value |-> NoJson, error |-> MkError("exec", 0, ""), info |-> FALSE]
  ELSE IF ex.stderr # <<>>
  THEN [ok |-> FALSE, value |-> NoJson, error |-> MkError("stderr", 0, ""), info |-> FALSE]
  ELSE IF ex.stdout = <<>>
  THEN [ok |-> FALSE, value |-> NoJson, error |-> MkError("empty stdout", 0, ""),
        info |-> FALSE]
  ELSE IF ~JSONParse(ex.stdout).ok
  THEN [ok |-> FALSE, value |-> NoJson, error |-> MkError("JSON.parse", 0, ""),
        info |-> FALSE]
  ELSE [ok |-> TRUE, value |-> JSONParse(ex.stdout).value, error |-> NoError,
        info |-> FALSE]

\* lines 84-105: what the inner try block does with the reply of execAsync
FallbackResult(ex) ==
  IF ex.rejected
  THEN [ok |-> FALSE, value |-> NoJson, error |-> MkError("exec", 0, ""), info |-> FALSE]
  ELSE IF StderrIsError(ex.stdout, ex.stderr)
  THEN [ok |-> FALSE, value |-> NoJson, error |-> MkError("stderr", 0, ""), info |-> FALSE]
  ELSE IF ex.stdout = <<>>
  THEN [ok |-> FALSE, value |-> NoJson, error |-> MkError("empty stdout", 0, ""),
        info |-> ex.stderr # <<>>]
  ELSE IF ~JSONParse(ex.stdout).ok
  THEN [ok |-> FALSE, value |-> NoJson, error |-> MkError("JSON.parse", 0, ""),
        info |-> ex.stderr # <<>>]
  ELSE [ok |-> TRUE, value |-> JSONParse(ex.stdout).value, error |-> NoError,
        info |-> ex.stderr # <<>>]

\* headers record of the options: undefined, or entries <<key, value>> in
\* insertion order, key and value being texts
NoHeaders == [defined |-> FALSE, entries |-> <<>>]

Headers(entries) == [defined |-> TRUE, entries |-> entries]

\* the template `-H "${key}: ${value}"` of line 126
HeaderArg(key, value) == <<"-H", " ", "\"">> \o key \o <<":", " ">> \o value \o <<"\"">>

\* lines 121-127 written with one argument for the whole record
formatHeadersForCurlJoined(headers) ==
  IF ~headers.defined \/ headers.entries = <<>> THEN <<>>
  ELSE << HeaderArg(headers.entries[1][1], headers.entries[1][2]) >>

\* lines 121-127: Object.entries(headers).map(...)
formatHeadersForCurl(headers) ==
  IF ~headers.defined THEN <<>>
  ELSE [i \in DOMAIN headers.entries |->
          HeaderArg(headers.entries[i][1], headers.entries[i][2])]

\* Array.prototype.join
RECURSIVE Join(_, _)
Join(texts, sep) ==
  IF texts = <<>> THEN <<>>
  ELSE IF Len(texts) = 1 THEN texts[1]
  ELSE texts[1] \o sep \o Join(Tail(texts), sep)

CurlFlags == <<"-s", "-S", "--fail-with-body", "-L">>

\* the template string of line 79
CurlCommandText(headerArgs, url) ==
  <<"curl", " ">> \o Join([i \in DOMAIN CurlFlags |-> <<CurlFlags[i]>>], <<" ">>) \o <<" ">> \o Join(headerArgs, <<" ">>)
    \o <<" ", "\"">> \o url \o <<"\"">>

\* lines 73-79
CurlCommandOf(url, headers) ==
  [flags |-> CurlFlags,
   headerArgs |-> formatHeadersForCurl(headers),
   url |-> url,
   text |-> CurlCommandText(formatHeadersForCurl(headers), url)]

NoCommand == [flags |-> <<>>, headerArgs |-> <<>>, url |-> <<>>, text |-> <<>>]

\* the words the shell started by exec makes of a command text: blanks
\* separate words, a double quote opens or closes a quoted stretch and is
\* removed; a quote left open is a syntax error
ShellWords(text) ==
  LET n == Len(text)
      quoted(i) == Cardinality({j \in 1..(i - 1) : text[j] = "\""}) % 2 = 1
      isSep(i) == text[i] = " " /\ ~quoted(i)
      isStart(i) == ~isSep(i) /\ (i = 1 \/ isSep(i - 1))
      endOf(i) == CHOOSE k \in i..n : /\ (k = n \/ isSep(k + 1))
                                      /\ \A m \in i..k : ~isSep(m)
      starts == SelectSeq([i \in 1..n |-> i], isStart)
  IN  [ok |-> Cardinality({j \in 1..n : text[j] = "\""}) % 2 = 0,
       words |-> [k \in DOMAIN starts |->
                    SelectSeq(SubSeq(text, starts[k], endOf(starts[k])),
                              LAMBDA c : c # "\"")]]

\* a header line "key: value" as curl reads it
RECURSIVE IndexOf(_, _, _)
IndexOf(s, c, i) ==
  IF i > Len(s) THEN 0 ELSE IF s[i] = c THEN i ELSE IndexOf(s, c, i + 1)

HeaderOfLine(line) ==
  LET k == IndexOf(line, ":", 1)
  IN  IF k = 0 THEN <<line, <<>> >>
      ELSE <<SubSeq(line, 1, k - 1), Trim(SubSeq(line, k + 1, Len(line)))>>

\* the request curl makes of its argument words: no -X and no -d among the
\* flags of line 79, so the method is GET and there is no body
RECURSIVE CurlArgs(_, _, _)
CurlArgs(words, headers, urls) ==
  IF words = <<>> THEN [headers |-> headers, urls |-> urls]
  ELSE IF words[1] = <<"-H">> /\ Len(words) >= 2
  THEN CurlArgs(Tail(Tail(words)), Append(headers, HeaderOfLine(words[2])), urls)
  ELSE IF \E i \in DOMAIN CurlFlags : words[1] = <<CurlFlags[i]>>
  THEN CurlArgs(Tail(words), headers, urls)
  ELSE CurlArgs(Tail(words), headers, Append(urls, words[1]))

\* line 62: the request fetch(url, {...options, dispatcher}) makes
RequestOf(u, opts) ==
  [url |-> u,
   method |-> IF opts.method.set THEN opts.method.v ELSE <<"GET">>,
   headers |-> opts.headers.entries,
   body |-> opts.body]

\* lines 79-84: the request the curl process makes of the command text
CurlRequestOf(text) ==
  LET w == ShellWords(text)
      a == CurlArgs(IF w.words = <<>> THEN <<>> ELSE Tail(w.words), <<>>, <<>>)
  IN  [url |-> IF a.urls = <<>> THEN <<>> ELSE a.urls[1],
       method |-> <<"GET">>,
       headers |-> a.headers,
       body |-> Undefined]

NoRequest == [url |-> <<>>, method |-> <<>>, headers |-> <<>>, body |-> Undefined]

\* what a transport is handed: fetch its request (line 62), exec the command
\* text (line 84)
HandedToFetch(request) == [transport |-> "fetch", request |-> request, command |-> <<>>]

HandedToExec(text) == [transport |-> "exec", request |-> NoRequest, command |-> text]

(***************************************************************************)
(* State                                                                   *)
(***************************************************************************)
VARIABLES
  env,               \* process.env
  module,            \* module-level constants of fetch-with-proxy.d.ts
  pc,                \* position of the fetchWithRetry call
  url,               \* argument url
  options,           \* argument options: headers, dispatcher
  dispatcher,        \* dispatcher handed to fetch (line 60)
  reply,             \* what fetch settled with
  execReply,         \* what execAsync settled with
  fetchError,        \* the error caught at line 68
  curlError,         \* the error caught at line 106
  curlCommand,       \* line 79
  outcome,           \* how the call settled
  events,            \* transport events of the call, in order
  log,               \* Logger / console lines of the call, in order
  noProxyEvals,      \* evaluations of the no-proxy rules during the call
  agentsConstructed, \* agents constructed since start-up
  callsMade,         \* calls started since start-up
  resolved,          \* result of the last stand-alone resolver request
  probe,             \* input and result of a pure-function evaluation
  sent,              \* what the call handed to the transports, in order
  figma,             \* the FigmaService instance and its getAuthHeaders call
  redis,             \* the redisService singleton
  conc               \* frames of the fetchWithRetry calls in flight together

vars == <<env, module, pc, url, options, dispatcher, reply, execReply, fetchError,
          curlError, curlCommand, outcome, events, log, noProxyEvals,
          agentsConstructed, callsMade, resolved, probe, sent, figma, redis, conc>>

fetchVars == <<pc, url, options, dispatcher, reply, execReply, fetchError,
               curlError, curlCommand, outcome, events, sent>>

serviceVars == <<figma, redis>>

NoAgent == [kind |-> "none", uri |-> <<>>]

CustomAgent == [kind |-> "custom", uri |-> <<>>]

NoOutcome == [kind |-> "none", value |-> NoJson, error |-> NoError]

NoResolved == [by |-> "none", url |-> <<>>, agent |-> NoAgent, threw |-> FALSE,
               evals |-> 0, logged |-> FALSE, constructed |-> 0]

NoProbe == [fn |-> "none", url |-> <<>>, noProxy |-> <<>>, done |-> FALSE, result |-> FALSE]

\* destination URLs: well-formed, upper-case host, opaque, without scheme, empty
Urls ==
  { <<"https://", "a", ".", "b", "/", "x">>,
    <<"https://", "B", ".", "A">>,
    <<"http://", "b">>,
    <<"data:", "1">>,
    <<"a", ".", "b", "/", "x">>,
    <<>> }

HeaderSets ==
  { NoHeaders, Headers(<<>>),
    Headers(<< <<<<"Authorization">>, <<"Bearer", " ", "X">>>> >>),
    Headers(<< <<<<"X-Figma-Token">>, <<"k">>>>, <<<<"Accept">>, <<"json">>>> >>) }

\* method and body of the options: left out, or a POST with a body
MethodAndBody ==
  { [method |-> Undefined, body |-> Undefined],
    [method |-> Str(<<"POST">>), body |-> Str(<<"1">>)] }

OptionSets ==
  { [headers |-> h, dispatcher |-> d, method |-> mb.method, body |-> mb.body] :
      h \in HeaderSets, d \in {NoAgent, CustomAgent}, mb \in MethodAndBody }

\* environments of the fetchWithRetry runs: no proxy, a proxy with and without
\* exclusions, a proxy setting that is not a URL
FetchEnvs ==
  {e \in Envs : /\ e["https_proxy"] = Undefined /\ e["http_proxy"] = Undefined
                /\ e["no_proxy"] = Undefined
                /\ e["HTTPS_PROXY"] # Str(<<>>)
                /\ e["HTTP_PROXY"] # Str(ProxyB)
                /\ e["NO_PROXY"] \in {Undefined, Str(<<".", "a", ",", " ", "b", ".", "b">>)}
                /\ (e["HTTP_PROXY"] # Undefined => e["HTTPS_PROXY"] = Undefined)
                /\ (e["HTTPS_PROXY"] = Undefined => e["NO_PROXY"] = Undefined)}

\* destination URLs of the fetchWithRetry runs
FetchUrls ==
  { <<"https://", "a", ".", "b", "/", "x">>,
    <<"https://", "B", ".", "A">>,
    <<"a", ".", "b", "/", "x">>,
    <<>> }

\* no FigmaService call, the redisService singleton as constructed
NoService ==
  [apiKey |-> <<>>, oauthToken |-> <<>>, useOAuth |-> FALSE, pc |-> "idle",
   sessionHash |-> Undefined, headers |-> NoHeaders, threw |-> FALSE,
   endpoint |-> <<>>]

\* isConnected and client.status; the last client event handled and the
\* number handled; the public method running (op), where it waits (pc), how
\* it settled, the state it started from, the client calls it made and the
\* client's answer to the last of them (got: what client.get resolved with)
NoRedis ==
  [isConnected |-> FALSE, status |-> "wait", lastEvent |-> "none", eventsSeen |-> 0,
   op |-> "none", pc |-> "idle", result |-> Undefined, threw |-> FALSE,
   before |-> [isConnected |-> FALSE, status |-> "wait"],
   connects |-> 0, quits |-> 0, gets |-> 0, answer |-> "none", got |-> Undefined]

\* redis.ts lines 35-58 with the error handler leaving the flag as it is
IsConnectedAfterErrorKept(ev, was) ==
  IF ev = "error" THEN was ELSE ev \in {"connect", "ready"}

\* redis.ts lines 35-58: what the handler of a client event assigns to
\* isConnected
IsConnectedAfter(ev, was) == ev \in {"connect", "ready"}

\* the Logger line of the handler
EventLogLine(ev) ==
  CASE ev = "error" -> "Redis Client Error"
    [] ev = "connect" -> "Redis client connected"
    [] ev = "ready" -> "Redis client ready"
    [] ev = "close" -> "Redis client disconnected"
    [] ev = "end" -> "Redis client connection ended"

\* the client emits ev: connect, ready, close and end are emitted when the
\* client takes the status of that name, error leaves the status alone
OnClientEvent(r, ev) ==
  [r EXCEPT !.isConnected = IsConnectedAfter(ev, r.isConnected),
            !.status = IF ev = "error" THEN @ ELSE ev,
            !.lastEvent = ev,
            !.eventsSeen = @ + 1]

\* redis.ts lines 196-197
connected(r) == r.isConnected /\ r.status = "ready"

\* a public method of the service is entered
Entered(r, op) ==
  [r EXCEPT !.op = op, !.result = Undefined, !.threw = FALSE,
            !.before = [isConnected |-> r.isConnected, status |-> r.status],
            !.connects = 0, !.quits = 0, !.gets = 0, !.answer = "none",
            !.got = Undefined]

\* redis.ts line 171 written as in the node-redis variant: connect whenever
\* the flag is down
ConnectFirstWhenFlagDown(r) == ~r.isConnected

\* redis.ts line 171: getFigmaApiKey awaits connect() before the lookup
ConnectFirst(r) == ~r.isConnected /\ r.status = "end"

\* redis.ts line 138 written without the guard
ConnectNeededAlways(r) == TRUE

\* redis.ts line 138: connect() calls client.connect()
ConnectNeeded(r) == ~r.isConnected

\* redis.ts line 152: disconnect() calls client.quit()
QuitNeeded(r) == r.isConnected \/ r.status # "end"

ServicesIdle == figma = NoService /\ redis = NoRedis

NoConc == [frames |-> <<>>, wire |-> <<>>]

IdleCall ==
  /\ pc = "idle"
  /\ url = <<>>
  /\ options = [headers |-> NoHeaders, dispatcher |-> NoAgent, method |-> Undefined,
                body |-> Undefined]
  /\ dispatcher = NoAgent
  /\ reply = NoReply
  /\ execReply = NoExec
  /\ fetchError = NoError
  /\ curlError = NoError
  /\ curlCommand = NoCommand
  /\ outcome = NoOutcome
  /\ events = <<>>
  /\ sent = <<>>
  /\ log = <<>>
  /\ noProxyEvals = 0

Init ==
  /\ env \in FetchEnvs
  /\ module = ModuleLoad(env)
  /\ IdleCall
  /\ agentsConstructed = 0
  /\ callsMade = 0
  /\ resolved = NoResolved
  /\ probe = NoProbe
  /\ ServicesIdle
  /\ conc = NoConc

(***************************************************************************)
(* fetchWithRetry(url, options)                                            *)
(***************************************************************************)
\* the catch block written as a retry of the primary attempt
EnterFallbackRetry(u, opts, err, logSoFar, eventsSoFar) ==
  /\ fetchError' = err
  /\ curlCommand' = NoCommand
  /\ log' = logSoFar \o <<"initial fetch failed">>
  /\ events' = eventsSoFar \o <<"primary started">>
  /\ sent' = Append(sent, HandedToFetch(RequestOf(u, opts)))
  /\ pc' = "fetch"

\* lines 68-84 up to the suspension at await execAsync: the catch block logs,
\* builds the curl command, logs it and starts the external process
EnterFallback(u, opts, err, logSoFar, eventsSoFar) ==
  /\ fetchError' = err
  /\ curlCommand' = CurlCommandOf(u, opts.headers)
  /\ log' = logSoFar \o <<"initial fetch failed", "executing curl command">>
  /\ events' = eventsSoFar \o <<"fallback started">>
  /\ sent' = Append(sent, HandedToExec(CurlCommandOf(u, opts.headers).text))
  /\ pc' = "exec"

\* line 60 written as getDispatcher(url) ?? options.dispatcher: the resolver
\* is consulted first and the caller's dispatcher only fills in for undefined
CallResolverFirst(u, opts) ==
  /\ pc = "idle"
  /\ callsMade' = callsMade + 1
  /\ url' = u
  /\ options' = opts
  /\ reply' = NoReply
  /\ execReply' = NoExec
  /\ curlError' = NoError
  /\ outcome' = NoOutcome
  /\ LET gd == getDispatcher(u, env)
         own == opts.dispatcher # NoAgent /\ ~gd.threw /\ gd.agent = DirectAgent
         consoleLines == IF gd.logged THEN <<"error checking NO_PROXY rules">> ELSE <<>>
     IN  /\ noProxyEvals' = gd.evals
         /\ agentsConstructed' = agentsConstructed + gd.constructed
         /\ IF gd.threw
            THEN /\ dispatcher' = NoAgent
                 /\ EnterFallback(u, opts, MkError("ProxyAgent", 0, ""), consoleLines,
                                  <<"primary started", "primary settled">>)
            ELSE /\ dispatcher' = IF own THEN opts.dispatcher ELSE gd.agent
                 /\ fetchError' = NoError
                 /\ curlCommand' = NoCommand
                 /\ log' = consoleLines
                 /\ events' = <<"primary started">>
                 /\ sent' = <<HandedToFetch(RequestOf(u, opts))>>
                 /\ pc' = "fetch"
  /\ UNCHANGED <<env, module, resolved, probe, serviceVars, conc>>

\* the call up to its first suspension: dispatcher selection and fetch; when
\* new ProxyAgent throws the catch block runs at once
Call(u, opts) ==
  /\ pc = "idle"
  /\ callsMade' = callsMade + 1
  /\ url' = u
  /\ options' = opts
  /\ reply' = NoReply
  /\ execReply' = NoExec
  /\ curlError' = NoError
  /\ outcome' = NoOutcome
  /\ LET gd == getDispatcher(u, env)
         own == opts.dispatcher # NoAgent
         consoleLines == IF ~own /\ gd.logged THEN <<"error checking NO_PROXY rules">> ELSE <<>>
     IN  /\ noProxyEvals' = IF own THEN 0 ELSE gd.evals
         /\ agentsConstructed' = agentsConstructed + (IF own THEN 0 ELSE gd.constructed)
         /\ IF ~own /\ gd.threw
            THEN /\ dispatcher' = NoAgent
                 /\ EnterFallback(u, opts, MkError("ProxyAgent", 0, ""), consoleLines,
                                  <<"primary started", "primary settled">>)
            ELSE /\ dispatcher' = IF own THEN opts.dispatcher ELSE gd.agent
                 /\ fetchError' = NoError
                 /\ curlCommand' = NoCommand
                 /\ log' = consoleLines
                 /\ events' = <<"primary started">>
                 /\ sent' = <<HandedToFetch(RequestOf(u, opts))>>
                 /\ pc' = "fetch"
  /\ UNCHANGED <<env, module, resolved, probe, serviceVars, conc>>

\* fetch settles (lines 62-67); on failure the catch block runs up to the
\* start of the external process.  fetch rejects a url that new URL cannot
\* parse.
PrimarySettles(r) ==
  /\ pc = "fetch"
  /\ (~ParseURL(url).ok => r.rejected)
  /\ reply' = r
  /\ LET res == PrimaryResult(r)
     IN  IF res.ok
         THEN /\ outcome' = [kind |-> "returned", value |-> res.value, error |-> NoError]
              /\ events' = Append(events, "primary settled")
              /\ pc' = "done"
              /\ UNCHANGED <<fetchError, curlCommand, log, sent>>
         ELSE /\ EnterFallback(url, options, res.error, log, Append(events, "primary settled"))
              /\ outcome' = NoOutcome
  /\ UNCHANGED <<env, module, url, options, dispatcher, execReply, curlError,
                 noProxyEvals, agentsConstructed, callsMade, resolved, probe,
                 serviceVars, conc>>

\* line 111 written as throw curlError
ThrownCurlError(primaryError, fallbackError) == fallbackError

\* line 111: the error thrown once the fallback has failed too
ThrownAfterFallback(primaryError, fallbackError) == primaryError

\* execAsync settles (lines 84-112)
FallbackSettles(ex) ==
  /\ pc = "exec"
  /\ execReply' = ex
  /\ events' = Append(events, "fallback settled")
  /\ LET res == FallbackResult(ex)
         info == IF res.info THEN <<"curl stderr informational">> ELSE <<>>
     IN  IF res.ok
         THEN /\ outcome' = [kind |-> "returned", value |-> res.value, error |-> NoError]
              /\ curlError' = NoError
              /\ log' = log \o info
         ELSE /\ outcome' = [kind |-> "raised", value |-> NoJson,
                           error |-> ThrownAfterFallback(fetchError, res.error)]
              /\ curlError' = res.error
              /\ log' = log \o info \o <<"curl fallback also failed">>
  /\ pc' = "done"
  /\ UNCHANGED <<env, module, url, options, dispatcher, reply, fetchError, curlCommand,
                 sent, noProxyEvals, agentsConstructed, callsMade, resolved, probe,
                 serviceVars, conc>>

Next ==
  \/ \E u \in FetchUrls, opts \in OptionSets : Call(u, opts)
  \/ \E r \in PrimaryReplies : PrimarySettles(r)
  \/ \E ex \in ExecReplies : FallbackSettles(ex)

Spec == Init /\ [][Next]_vars

(***************************************************************************)
(* The resolvers on their own: getDispatcher(url) and dispatcher.dispatch  *)
(* are requested one after another while the environment changes.          *)
(***************************************************************************)
ResolverEnvs == {e \in Envs : Cardinality({n \in EnvVars : e[n].set}) <= MaxEnvSet}

InitResolver ==
  /\ env \in ResolverEnvs
  /\ module = ModuleLoad(env)
  /\ IdleCall
  /\ agentsConstructed = 0
  /\ callsMade = 0
  /\ resolved = NoResolved
  /\ probe = NoProbe
  /\ ServicesIdle
  /\ conc = NoConc

\* the request and its result
Resolved(by, u, r) ==
  [by |-> by, url |-> u, agent |-> r.agent, threw |-> r.threw, evals |-> r.evals,
   logged |-> r.logged, constructed |-> r.constructed]

\* a request resolved by getDispatcher(url)
ResolveDispatcher(u) ==
  /\ callsMade < MaxCalls
  /\ callsMade' = callsMade + 1
  /\ LET gd == getDispatcher(u, env)
     IN  /\ resolved' = Resolved("getDispatcher", u, gd)
         /\ agentsConstructed' = agentsConstructed + gd.constructed
         /\ noProxyEvals' = gd.evals
         /\ log' = IF gd.logged THEN <<"error checking NO_PROXY rules">> ELSE <<>>
  /\ UNCHANGED <<env, module, fetchVars, probe, serviceVars, conc>>

\* a request dispatched by the exported dispatcher of fetch-with-proxy.d.ts
Dispatch(origin) ==
  /\ module.loaded
  /\ callsMade < MaxCalls
  /\ callsMade' = callsMade + 1
  /\ LET d == dispatch(origin, module)
     IN  /\ resolved' = Resolved("dispatch", origin, d)
         /\ agentsConstructed' = agentsConstructed + d.constructed
         /\ noProxyEvals' = d.evals
         /\ log' = IF d.logged THEN <<"error checking NO_PROXY rules">> ELSE <<>>
  /\ UNCHANGED <<env, module, fetchVars, probe, serviceVars, conc>>

\* process.env[name] = value, or delete process.env[name], between two
\* requests; the record of the last request is dropped, so that resolved
\* always belongs to the current environment
SetEnv(name, value) ==
  /\ value # env[name]
  /\ [env EXCEPT ![name] = value] \in ResolverEnvs
  /\ env' = [env EXCEPT ![name] = value]
  /\ resolved' = NoResolved
  /\ log' = <<>>
  /\ noProxyEvals' = 0
  /\ UNCHANGED <<module, fetchVars, agentsConstructed, callsMade, probe, serviceVars,
                 conc>>

NextResolver ==
  \/ \E u \in Urls : ResolveDispatcher(u)
  \/ \E o \in Urls : Dispatch(o)
  \/ \E n \in EnvVars : \E v \in EnvValues(n) : SetEnv(n, v)

SpecResolver == InitResolver /\ [][NextResolver]_vars

(***************************************************************************)
(* shouldBypassProxy and inNoProxy as pure functions of a destination and  *)
(* every NO_PROXY text up to MaxNoProxyLen characters                      *)
(***************************************************************************)
NoProxyChars == {"a", "b", ".", "*", ",", " "}

ProbeUrls ==
  { <<"https://", "a">>, <<"https://", "b", ".", "a">>, <<"https://", "a", ".", "a", "/", "x">>,
    <<"http://", "A", "b">>, <<"https://", ".", "a">>, <<"http://", "a", ".">>,
    <<"data:", "1">> }

InitBypass ==
  /\ env \in {[n \in EnvVars |-> Undefined]}
  /\ module = ModuleLoad(env)
  /\ IdleCall
  /\ agentsConstructed = 0
  /\ callsMade = 0
  /\ resolved = NoResolved
  /\ probe \in [fn : {"shouldBypassProxy", "inNoProxy"}, url : ProbeUrls,
                noProxy : SeqsUpTo(NoProxyChars, MaxNoProxyLen),
                done : {FALSE}, result : {FALSE}]
  /\ ServicesIdle
  /\ conc = NoConc

EvalShouldBypassProxy ==
  /\ ~probe.done
  /\ probe.fn = "shouldBypassProxy"
  /\ probe' = [probe EXCEPT !.done = TRUE,
                            !.result = shouldBypassProxy(probe.url, probe.noProxy).bypass]
  /\ UNCHANGED <<env, module, fetchVars, log, noProxyEvals, agentsConstructed, callsMade,
                 resolved, serviceVars, conc>>

\* NO_PROXY_LIST is built from the text as the module does, then inNoProxy
\* is applied to the hostname of the origin as dispatch does
EvalInNoProxy ==
  /\ ~probe.done
  /\ probe.fn = "inNoProxy"
  /\ probe' = [probe EXCEPT !.done = TRUE,
                            !.result = inNoProxy(ParseURL(probe.url).hostname,
                                                 FilterNonEmpty(NoProxyListOf(probe.noProxy)))]
  /\ UNCHANGED <<env, module, fetchVars, log, noProxyEvals, agentsConstructed, callsMade,
                 resolved, serviceVars, conc>>

NextBypass == EvalShouldBypassProxy \/ EvalInNoProxy

SpecBypass == InitBypass /\ [][NextBypass]_vars

(***************************************************************************)
(* FigmaService.getAuthHeaders with redisService.getFigmaApiKey: one call  *)
(* on a service constructed from every combination of the options          *)
(***************************************************************************)
ApiKeyStatic == <<"k">>

ApiKeyRedis == <<"r">>

OAuthToken == <<"t">>

AuthOptions ==
  [figmaApiKey : {Undefined, Str(<<>>), Str(ApiKeyStatic)},
   figmaOAuthToken : {Undefined, Str(OAuthToken)},
   useOAuth : BOOLEAN]

\* part_000 line 162 written as this.useOAuth = !!useOAuth
FigmaServiceNewFlagOnly(opts) ==
  LET token == IF Truthy(opts.figmaOAuthToken) THEN opts.figmaOAuthToken.v ELSE <<>>
  IN  [NoService EXCEPT !.apiKey = IF Truthy(opts.figmaApiKey) THEN opts.figmaApiKey.v
                                   ELSE <<>>,
                        !.oauthToken = token,
                        !.useOAuth = opts.useOAuth]

\* part_000 lines 159-163, the constructor
FigmaServiceNew(opts) ==
  LET token == IF Truthy(opts.figmaOAuthToken) THEN opts.figmaOAuthToken.v ELSE <<>>
  IN  [NoService EXCEPT !.apiKey = IF Truthy(opts.figmaApiKey) THEN opts.figmaApiKey.v
                                   ELSE <<>>,
                        !.oauthToken = token,
                        !.useOAuth = opts.useOAuth /\ token # <<>>]

\* states of the singleton between two operations: never connected, ready,
\* ended, reconnecting
RedisStates ==
  { NoRedis,
    OnClientEvent(OnClientEvent(NoRedis, "connect"), "ready"),
    OnClientEvent(OnClientEvent(NoRedis, "close"), "end"),
    [OnClientEvent(NoRedis, "close") EXCEPT !.status = "reconnecting"] }

SessionHashes == {Undefined, Str(<<>>), Str(<<"s">>), Str(<<"s", "2">>)}

\* what client.get settles with: a rejection, null, an empty or a stored key
GetReplies ==
  { [rejected |-> TRUE, value |-> Undefined], [rejected |-> FALSE, value |-> Undefined],
    [rejected |-> FALSE, value |-> Str(<<>>)], [rejected |-> FALSE, value |-> Str(ApiKeyRedis)] }

\* part_000 lines 172-183 written with the configured key first
ApiKeyAfterLookupStaticFirst(staticKey, threw, redisApiKey) ==
  IF staticKey # <<>> THEN staticKey
  ELSE IF ~threw /\ Truthy(redisApiKey) THEN redisApiKey.v ELSE staticKey

\* part_000 lines 172-183: the key after the lookup settled
ApiKeyAfterLookup(staticKey, threw, redisApiKey) ==
  IF ~threw /\ Truthy(redisApiKey) THEN redisApiKey.v ELSE staticKey

\* the log line of part_000 lines 176-182
LookupLogLine(threw, redisApiKey) ==
  IF threw THEN "error retrieving API key from Redis, falling back"
  ELSE IF Truthy(redisApiKey) THEN "using API key from Redis session"
  ELSE "no API key found in Redis, falling back"

\* part_000 lines 186-191: throw without a key, else the X-Figma-Token header
FinishAuthHeaders(service, apiKey, logSoFar) ==
  IF apiKey = <<>>
  THEN /\ figma' = [service EXCEPT !.pc = "done", !.threw = TRUE]
       /\ log' = logSoFar
  ELSE /\ figma' = [service EXCEPT !.pc = "done",
                      !.headers = Headers(<< <<<<"X-Figma-Token">>, apiKey>> >>)]
       /\ log' = Append(logSoFar, "using Personal Access Token")

\* part_000 lines 165-175 with redis.ts lines 168-177: the call up to its
\* first suspension
GetAuthHeaders(service, sessionHash) ==
  /\ service.pc = "idle"
  /\ IF service.useOAuth
     THEN /\ figma' = [service EXCEPT !.pc = "done", !.sessionHash = sessionHash,
                         !.headers = Headers(<< <<<<"Authorization">>,
                                                  <<"Bearer", " ">> \o service.oauthToken>> >>)]
          /\ log' = Append(log, "using OAuth Bearer token")
          /\ UNCHANGED redis
     ELSE IF Truthy(sessionHash)
     THEN /\ figma' = [service EXCEPT !.pc = "lookup", !.sessionHash = sessionHash]
          /\ IF ConnectFirst(redis) /\ ConnectNeeded(redis)
             THEN /\ redis' = [Entered(redis, "getFigmaApiKey") EXCEPT
                                 !.pc = "connect", !.connects = 1]
                  /\ UNCHANGED log
             ELSE /\ redis' = [Entered(redis, "getFigmaApiKey") EXCEPT
                                 !.pc = "get", !.gets = 1]
                  /\ log' = Append(log, "retrieving Figma API key")
     ELSE /\ FinishAuthHeaders([service EXCEPT !.sessionHash = sessionHash], service.apiKey, log)
          /\ UNCHANGED redis
  /\ UNCHANGED <<env, module, fetchVars, noProxyEvals, agentsConstructed, callsMade,
                 resolved, probe, conc>>

\* the statuses client.connect() leaves behind when it rejects
FailedStatuses == {"reconnecting", "end"}

\* redis.ts lines 137-149 and 170-176: client.connect() settles; a rejection
\* is logged, rethrown by connect and by getFigmaApiKey (lines 186-189) and
\* caught at part_000 line 181
RedisConnectSettles(ok, st) ==
  /\ redis.pc = "connect"
  /\ IF ok
     THEN /\ redis' = [OnClientEvent(OnClientEvent(redis, "connect"), "ready") EXCEPT
                              !.pc = "get", !.gets = 1, !.answer = "ok"]
          /\ log' = log \o <<EventLogLine("connect"), EventLogLine("ready"),
                             "successfully connected to Redis", "retrieving Figma API key">>
          /\ UNCHANGED figma
     ELSE /\ redis' = [OnClientEvent(OnClientEvent(redis, "error"), "close") EXCEPT
                              !.pc = "done", !.status = st, !.threw = TRUE,
                              !.answer = "rejected"]
          /\ FinishAuthHeaders(figma, ApiKeyAfterLookup(figma.apiKey, TRUE, Undefined),
                               log \o <<EventLogLine("error"), EventLogLine("close"),
                                        "failed to connect to Redis",
                                        "error retrieving API key for session",
                                        LookupLogLine(TRUE, Undefined)>>)
  /\ UNCHANGED <<env, module, fetchVars, noProxyEvals, agentsConstructed, callsMade,
                 resolved, probe, conc>>

\* redis.ts lines 179-190: client.get settles, getFigmaApiKey returns the
\* key or null or rethrows, and getAuthHeaders runs to its end
RedisGetSettles(r) ==
  /\ redis.pc = "get"
  /\ LET found == ~r.rejected /\ Truthy(r.value)
         result == IF found THEN r.value ELSE Undefined
         line == IF r.rejected THEN "error retrieving API key for session"
                 ELSE IF found THEN "successfully retrieved API key"
                 ELSE "no API key found for session hash"
     IN  /\ redis' = [redis EXCEPT !.pc = "done", !.result = result, !.threw = r.rejected,
                                   !.answer = IF r.rejected THEN "rejected" ELSE "ok",
                                   !.got = r.value]
         /\ FinishAuthHeaders(figma, ApiKeyAfterLookup(figma.apiKey, r.rejected, result),
                              log \o <<line, LookupLogLine(r.rejected, result)>>)
  /\ UNCHANGED <<env, module, fetchVars, noProxyEvals, agentsConstructed, callsMade,
                 resolved, probe, conc>>

InitAuth ==
  /\ env = [n \in EnvVars |-> Undefined]
  /\ module = ModuleLoad(env)
  /\ IdleCall
  /\ agentsConstructed = 0
  /\ callsMade = 0
  /\ resolved = NoResolved
  /\ probe = NoProbe
  /\ figma \in {FigmaServiceNew(o) : o \in AuthOptions}
  /\ redis \in RedisStates
  /\ conc = NoConc

NextAuth ==
  \/ \E h \in SessionHashes : GetAuthHeaders(figma, h)
  \/ \E ok \in BOOLEAN, st \in FailedStatuses : RedisConnectSettles(ok, st)
  \/ \E r \in GetReplies : RedisGetSettles(r)

SpecAuth == InitAuth /\ [][NextAuth]_vars


(***************************************************************************)
(* formatHeadersForCurl and the command text as pure functions of every    *)
(* headers record of up to MaxHeaders entries                              *)
(***************************************************************************)
HeaderKeys == {<<"Authorization">>, <<"X-Figma-Token">>, <<"Accept">>, <<"X", "-", "a">>}

\* header values: plain, with a blank, with a double quote
HeaderValues ==
  {<<"k">>, <<"Bearer", " ", "X">>, <<"k", "\"", " ", "-H", " ", "\"", "x", ":", " ", "y">>}

\* the keys of a record are distinct
HeaderRecords ==
  {NoHeaders} \cup
  { Headers(es) : es \in { s \in SeqsUpTo(HeaderKeys \X HeaderValues, MaxHeaders) :
                             \A i, j \in DOMAIN s : s[i][1] = s[j][1] => i = j } }

InitHeaders ==
  /\ env = [n \in EnvVars |-> Undefined]
  /\ module = ModuleLoad(env)
  /\ IdleCall
  /\ agentsConstructed = 0
  /\ callsMade = 0
  /\ resolved = NoResolved
  /\ probe \in [fn : {"formatHeadersForCurl"}, headers : HeaderRecords,
                url : {<<"https://", "a", ".", "b", "/", "x">>},
                done : {FALSE}, result : {NoCommand}]
  /\ ServicesIdle
  /\ conc = NoConc

\* lines 73-79 applied to the record
EvalFormatHeaders ==
  /\ ~probe.done
  /\ probe.fn = "formatHeadersForCurl"
  /\ probe' = [probe EXCEPT !.done = TRUE, !.result = CurlCommandOf(probe.url, probe.headers)]
  /\ UNCHANGED <<env, module, fetchVars, log, noProxyEvals, agentsConstructed, callsMade,
                 resolved, serviceVars, conc>>

NextHeaders == EvalFormatHeaders

SpecHeaders == InitHeaders /\ [][NextHeaders]_vars


(***************************************************************************)
(* MaxInFlight calls of fetchWithRetry in flight together: each call has   *)
(* its own frame (the locals of one invocation), each request to a         *)
(* transport is answered on its own, and the steps of the calls interleave *)
(***************************************************************************)
CallIds == 1..MaxInFlight

\* the locals of one invocation of fetchWithRetry
NoFrame ==
  [pc |-> "idle", url |-> <<>>, dispatcher |-> NoAgent, reply |-> NoReply,
   execReply |-> NoExec, fetchError |-> NoError, outcome |-> NoOutcome, events |-> <<>>]

\* the transports' side of one call: requests received, answers given
NoWire == [fetches |-> 0, execs |-> 0, primary |-> NoReply, exec |-> NoExec]

ConcUrls == { <<"https://", "a", ".", "b", "/", "x">>, <<"https://", "B", ".", "A">> }

ConcPrimaryReplies ==
  { r \in PrimaryReplies :
      \/ r.rejected
      \/ r.status = 200 /\ r.body \in {<<"1">>, <<"x">>}
      \/ r.status = 404 /\ r.statusText # "" /\ r.body = <<"1">> }

ConcExecReplies ==
  { ex \in ExecReplies :
      \/ ex.rejected /\ ex.stdout = <<>> /\ ex.stderr = <<>>
      \/ ~ex.rejected /\ ex.stderr = <<>> /\ ex.stdout \in {<<" ", "[", "1", ",", " ", "2", "]">>, <<"x">>} }

\* lines 58-84: the frame at the first suspension of a call without options
FrameStart(u, e) ==
  LET gd == getDispatcher(u, e)
  IN  IF gd.threw
      THEN [NoFrame EXCEPT !.pc = "exec", !.url = u,
                           !.fetchError = MkError("ProxyAgent", 0, ""),
                           !.events = <<"primary started", "primary settled",
                                        "fallback started">>]
      ELSE [NoFrame EXCEPT !.pc = "fetch", !.url = u, !.dispatcher = gd.agent,
                           !.events = <<"primary started">>]

\* lines 62-84: the frame after await fetch
FrameAfterPrimary(f, r) ==
  LET res == PrimaryResult(r)
  IN  IF res.ok
      THEN [f EXCEPT !.pc = "done", !.reply = r,
                     !.outcome = [kind |-> "returned", value |-> res.value, error |-> NoError],
                     !.events = Append(f.events, "primary settled")]
      ELSE [f EXCEPT !.pc = "exec", !.reply = r, !.fetchError = res.error,
                     !.events = f.events \o <<"primary settled", "fallback started">>]

\* lines 84-112: the frame after await execAsync
FrameAfterFallback(f, ex) ==
  LET res == FallbackResult(ex)
  IN  [f EXCEPT !.pc = "done", !.execReply = ex,
                !.events = Append(f.events, "fallback settled"),
                !.outcome = IF res.ok
                            THEN [kind |-> "returned", value |-> res.value, error |-> NoError]
                            ELSE [kind |-> "raised", value |-> NoJson,
                                  error |-> ThrownAfterFallback(f.fetchError, res.error)]]

\* lines 62 and 84 written with one pending promise per url, shared by the
\* calls that wait at the same point for the same url
AwaitersSameUrl(c, frames) ==
  {d \in DOMAIN frames : frames[d].pc = frames[c].pc /\ frames[d].url = frames[c].url}

\* lines 62 and 84: the promise a call awaits is its own, so the answer to
\* the request of call c resumes call c alone
Awaiters(c, frames) == {c}

InitConc ==
  /\ env \in FetchEnvs
  /\ module = ModuleLoad(env)
  /\ IdleCall
  /\ agentsConstructed = 0
  /\ callsMade = 0
  /\ resolved = NoResolved
  /\ probe = NoProbe
  /\ ServicesIdle
  /\ conc = [frames |-> [c \in CallIds |-> NoFrame], wire |-> [c \in CallIds |-> NoWire]]

concUnchanged ==
  UNCHANGED <<env, module, fetchVars, log, noProxyEvals, resolved, probe, serviceVars>>

\* call c enters fetchWithRetry(u) and runs to its first suspension
CStart(c, u) ==
  /\ conc.frames[c].pc = "idle"
  /\ LET f == FrameStart(u, env)
     IN  conc' = [frames |-> [conc.frames EXCEPT ![c] = f],
                  wire |-> [conc.wire EXCEPT
                              ![c].fetches = IF f.pc = "fetch" THEN 1 ELSE 0,
                              ![c].execs = IF f.pc = "exec" THEN 1 ELSE 0]]
  /\ agentsConstructed' = agentsConstructed + getDispatcher(u, env).constructed
  /\ callsMade' = callsMade + 1
  /\ concUnchanged

\* the in-process fetch answers the request of call c
CPrimarySettles(c, r) ==
  /\ conc.frames[c].pc = "fetch"
  /\ LET resumed == Awaiters(c, conc.frames)
         after == [d \in CallIds |-> IF d \in resumed
                                     THEN FrameAfterPrimary(conc.frames[d], r)
                                     ELSE conc.frames[d]]
     IN  conc' = [frames |-> after,
                  wire |-> [d \in CallIds |->
                              [conc.wire[d] EXCEPT
                                 !.primary = IF d = c THEN r ELSE @,
                                 !.execs = IF d \in resumed /\ after[d].pc = "exec"
                                           THEN @ + 1 ELSE @]]]
  /\ UNCHANGED <<agentsConstructed, callsMade>>
  /\ concUnchanged

\* the curl process started for call c settles
CFallbackSettles(c, ex) ==
  /\ conc.frames[c].pc = "exec"
  /\ LET resumed == Awaiters(c, conc.frames)
     IN  conc' = [frames |-> [d \in CallIds |-> IF d \in resumed
                                                THEN FrameAfterFallback(conc.frames[d], ex)
                                                ELSE conc.frames[d]],
                  wire |-> [conc.wire EXCEPT ![c].exec = ex]]
  /\ UNCHANGED <<agentsConstructed, callsMade>>
  /\ concUnchanged

NextConc ==
  \/ \E c \in CallIds, u \in ConcUrls : CStart(c, u)
  \/ \E c \in CallIds, r \in ConcPrimaryReplies : CPrimarySettles(c, r)
  \/ \E c \in CallIds, ex \in ConcExecReplies : CFallbackSettles(c, ex)

SpecConc == InitConc /\ [][NextConc]_vars


(***************************************************************************)
(* fetchWithRetry with transports that settle: a pending fetch and a       *)
(* running curl process each give their answer in the end                  *)
(***************************************************************************)
TransportsSettle ==
  /\ WF_vars(\E r \in PrimaryReplies : PrimarySettles(r))
  /\ WF_vars(\E ex \in ExecReplies : FallbackSettles(ex))

SpecLive == Spec /\ TransportsSettle


(***************************************************************************)
(* RedisService: the client's events arrive in any order, up to MaxEvents  *)
(* of them, while connect() and disconnect() are called one after another  *)
(***************************************************************************)
ClientEvents == {"error", "connect", "ready", "close", "end"}

InitRedis ==
  /\ env = [n \in EnvVars |-> Undefined]
  /\ module = ModuleLoad(env)
  /\ IdleCall
  /\ agentsConstructed = 0
  /\ callsMade = 0
  /\ resolved = NoResolved
  /\ probe = NoProbe
  /\ ServicesIdle
  /\ conc = NoConc

redisUnchanged ==
  UNCHANGED <<env, module, fetchVars, noProxyEvals, agentsConstructed, resolved, probe,
              figma, conc>>

\* redis.ts lines 35-58: the handler of a client event
ClientEvent(ev) ==
  /\ redis.eventsSeen < MaxEvents
  /\ redis' = OnClientEvent(redis, ev)
  /\ log' = Append(log, EventLogLine(ev))
  /\ UNCHANGED callsMade
  /\ redisUnchanged

\* redis.ts lines 137-140: connect() up to await this.client.connect(), or
\* to its end when the flag is up
ConnectCall ==
  /\ redis.pc = "idle"
  /\ callsMade < MaxCalls
  /\ callsMade' = callsMade + 1
  /\ redis' = IF ConnectNeeded(redis)
              THEN [Entered(redis, "connect") EXCEPT !.pc = "connect", !.connects = 1]
              ELSE Entered(redis, "connect")
  /\ log' = <<>>
  /\ redisUnchanged

\* redis.ts lines 142-147: client.connect() settles; it resolves once the
\* client is ready, its connect and ready events handled, and rejects when
\* the connection closed first
ConnectSettles(ok, st) ==
  /\ redis.pc = "connect" /\ redis.op = "connect"
  /\ IF ok
     THEN /\ redis' = [OnClientEvent(OnClientEvent(redis, "connect"), "ready") EXCEPT
                         !.pc = "idle", !.answer = "ok"]
          /\ log' = log \o <<EventLogLine("connect"), EventLogLine("ready"),
                             "successfully connected to Redis">>
     ELSE /\ redis' = [OnClientEvent(OnClientEvent(redis, "error"), "close") EXCEPT
                         !.pc = "idle", !.status = st, !.answer = "rejected", !.threw = TRUE]
          /\ log' = log \o <<EventLogLine("error"), EventLogLine("close"),
                             "failed to connect to Redis">>
  /\ UNCHANGED callsMade
  /\ redisUnchanged

\* redis.ts lines 151-154: disconnect() up to await this.client.quit(), or to
\* its end once the connection has ended
DisconnectCall ==
  /\ redis.pc = "idle"
  /\ callsMade < MaxCalls
  /\ callsMade' = callsMade + 1
  /\ redis' = IF QuitNeeded(redis)
              THEN [Entered(redis, "disconnect") EXCEPT !.pc = "quit", !.quits = 1]
              ELSE Entered(redis, "disconnect")
  /\ log' = <<>>
  /\ redisUnchanged

\* redis.ts lines 154-159: client.quit() settles; the close and end events
\* of the closing connection are client events of their own
QuitSettles(ok) ==
  /\ redis.pc = "quit"
  /\ redis' = [redis EXCEPT !.pc = "idle", !.answer = IF ok THEN "ok" ELSE "rejected",
                            !.threw = ~ok]
  /\ log' = Append(log, IF ok THEN "successfully disconnected from Redis"
                        ELSE "failed to disconnect from Redis")
  /\ UNCHANGED callsMade
  /\ redisUnchanged

NextRedis ==
  \/ \E ev \in ClientEvents : ClientEvent(ev)
  \/ ConnectCall
  \/ \E ok \in BOOLEAN, st \in FailedStatuses : ConnectSettles(ok, st)
  \/ DisconnectCall
  \/ \E ok \in BOOLEAN : QuitSettles(ok)

SpecRedis == InitRedis /\ [][NextRedis]_vars


(***************************************************************************)
(* FigmaService.request: the credentials first, then fetchWithRetry with   *)
(* the headers they gave.  One request per behaviour; the console lines of *)
(* request itself are left to the transport's log.                         *)
(***************************************************************************)
\* part_000 line 157, with a host of the modelled alphabet
baseUrl == <<"https://", "a", ".", "b", "/", "v1">>

Endpoints == { <<"/", "files", "/", "k">>, <<"/", "images", "/", "k">> }

\* lines 209-212: request runs into getAuthHeaders up to its first suspension
request(endpoint, sessionHash) ==
  GetAuthHeaders([figma EXCEPT !.endpoint = endpoint], sessionHash)

\* the same call handing over to the transport although getAuthHeaders threw
RequestFetchEvenWithoutKey ==
  /\ figma.pc = "done"
  /\ figma.endpoint # <<>>
  /\ callsMade = 0
  /\ Call(baseUrl \o figma.endpoint,
          [headers |-> figma.headers, dispatcher |-> NoAgent,
           method |-> Undefined, body |-> Undefined])

\* line 214: getAuthHeaders returned, fetchWithRetry is called with
\* { headers } on the base URL followed by the endpoint
RequestFetch ==
  /\ figma.pc = "done"
  /\ ~figma.threw
  /\ figma.endpoint # <<>>
  /\ callsMade = 0
  /\ Call(baseUrl \o figma.endpoint,
          [headers |-> figma.headers, dispatcher |-> NoAgent,
           method |-> Undefined, body |-> Undefined])

\* lines 215-219: the error request throws, its message naming the endpoint
\* ahead of the cause
RequestError(endpoint, cause) ==
  [kind |-> "raised", value |-> NoJson,
   message |-> <<"Failed to make request to Figma API endpoint '">> \o endpoint \o <<"': ">>,
   cause |-> cause]

\* lines 212-220: request has settled once getAuthHeaders threw or
\* fetchWithRetry settled
RequestSettled ==
  /\ figma.endpoint # <<>>
  /\ figma.pc = "done"
  /\ figma.threw \/ (pc = "done" /\ callsMade = 1)

\* lines 212-220: what request settles with
RequestOutcome ==
  IF figma.threw THEN RequestError(figma.endpoint, "No Figma API key available")
  ELSE IF outcome.kind = "raised" THEN RequestError(figma.endpoint, outcome.error.site)
  ELSE [kind |-> "returned", value |-> outcome.value, message |-> <<>>, cause |-> "none"]

InitRequest == InitAuth

NextRequest ==
  \/ \E e \in Endpoints, h \in SessionHashes : request(e, h)
  \/ \E ok \in BOOLEAN, st \in FailedStatuses : RedisConnectSettles(ok, st)
  \/ \E r \in GetReplies : RedisGetSettles(r)
  \/ RequestFetch
  \/ \E r \in ConcPrimaryReplies : PrimarySettles(r)
  \/ \E ex \in ConcExecReplies : FallbackSettles(ex)

SpecRequest == InitRequest /\ [][NextRequest]_vars



(***************************************************************************)
(* Properties of fetchWithRetry (checked under Spec)                       *)
(***************************************************************************)
Count(seq, x) == Cardinality({i \in DOMAIN seq : seq[i] = x})

Is2xx(status) == status \div 100 = 2

\* the in-process fetch has settled with a reply
FetchSettled == Count(events, "primary settled") > 0 /\ dispatcher # NoAgent

\* the external process has settled with a reply
ExecSettled == Count(events, "fallback settled") > 0

\* the primary attempt failed: new ProxyAgent threw, fetch rejected, the
\* status is not 2xx, or the body is not JSON
PrimaryFailed ==
  /\ Count(events, "primary settled") > 0
  /\ \/ dispatcher = NoAgent
     \/ reply.rejected
     \/ ~Is2xx(reply.status)
     \/ ~JSONParse(reply.body).ok

\* the fallback attempt failed in one of the four ways
FallbackFailed ==
  /\ ExecSettled
  /\ \/ execReply.rejected
     \/ StderrIsError(execReply.stdout, execReply.stderr)
     \/ execReply.stdout = <<>>
     \/ ~JSONParse(execReply.stdout).ok

\* C1: when the in-process fetch returns a 2xx response whose body parses as
\* JSON, the call returns exactly the parsed body and the external curl
\* process is never started (0 fallback invocations, no curl command built).
C1_PrimarySuccessSkipsFallback ==
  (FetchSettled /\ ~reply.rejected /\ Is2xx(reply.status) /\ JSONParse(reply.body).ok)
    => /\ pc = "done"
       /\ outcome = [kind |-> "returned", value |-> JSONParse(reply.body).value,
                     error |-> NoError]
       /\ Count(events, "fallback started") = 0
       /\ curlCommand = NoCommand
       /\ execReply = NoExec

C1_Witness ==
  /\ pc = "done" /\ FetchSettled /\ reply.status = 299
  /\ reply.body = <<" ", "[", "1", ",", " ", "2", "]">>
  /\ outcome.kind = "returned" /\ outcome.value = JsonArr(<<1, 2>>)

\* C2: when the primary attempt fails and the fallback attempt fails in any
\* way (invocation rejects, stderr classified as error, stdout empty, stdout
\* not JSON), the call raises the error caught from the primary attempt, never
\* the fallback's error, and the fallback's error is logged.
C2_BothFailRaisesPrimaryError ==
  (pc = "done" /\ PrimaryFailed /\ FallbackFailed)
    => /\ outcome.kind = "raised"
       /\ outcome.error = fetchError
       /\ outcome.error.site \in PrimarySites
       /\ curlError.site \in FallbackSites
       /\ outcome.error # curlError
       /\ (FetchSettled /\ ~reply.rejected /\ ~Is2xx(reply.status)
             => outcome.error = MkError("status", reply.status, reply.statusText))
       /\ log[Len(log)] = "curl fallback also failed"

C2_Witness ==
  /\ pc = "done" /\ PrimaryFailed /\ FallbackFailed
  /\ fetchError.site = "response.json" /\ curlError.site = "JSON.parse"
  /\ outcome.kind = "raised"

\* C3: when the primary attempt raises (network error, non-2xx status or JSON
\* parse error) and the external process resolves with a non-empty stdout that
\* is valid JSON and a stderr that is not classified as an error, the call
\* returns the value parsed from stdout and raises nothing.
C3_FallbackSuccessReturned ==
  (/\ PrimaryFailed /\ ExecSettled /\ ~execReply.rejected
   /\ execReply.stdout # <<>> /\ JSONParse(execReply.stdout).ok
   /\ ~StderrIsError(execReply.stdout, execReply.stderr))
    => /\ pc = "done"
       /\ outcome = [kind |-> "returned", value |-> JSONParse(execReply.stdout).value,
                     error |-> NoError]
       /\ curlError = NoError

C3_Witness ==
  /\ pc = "done" /\ PrimaryFailed /\ reply.rejected
  /\ execReply = [rejected |-> FALSE, stdout |-> <<"1">>, stderr |-> <<"5", "%">>]
  /\ outcome.kind = "returned" /\ outcome.value = JsonNum(1)

\* C4: a call runs PRIMARY then, only when PRIMARY failed, FALLBACK: each
\* state is started at most once, FALLBACK is started only after PRIMARY has
\* settled, no state is entered again, and a settled call has run PRIMARY
\* exactly once and FALLBACK exactly once if and only if PRIMARY failed.
AttemptChain == <<"primary started", "primary settled", "fallback started", "fallback settled">>

C4_TwoStatesNoRetry ==
  /\ Len(events) <= 4
  /\ events = SubSeq(AttemptChain, 1, Len(events))
  /\ (pc = "idle") = (events = <<>>)
  /\ (pc = "fetch") = (Len(events) = 1)
  /\ (pc = "exec") = (Len(events) = 3)
  /\ (pc = "done") = (Len(events) \in {2, 4})
  /\ (pc = "done" => ((Len(events) = 4) = PrimaryFailed))

C4_Witness ==
  pc = "done" /\ events = AttemptChain /\ outcome.kind = "returned"

\* the keyword test of the specification: a case-insensitive occurrence of
\* "error" or "fail" in the text
MentionsErrorOrFail(text) ==
  \E i \in DOMAIN text : \E kw \in {<<"e", "r", "r", "o", "r">>, <<"f", "a", "i", "l">>} :
     /\ i + Len(kw) - 1 <= Len(text)
     /\ \A j \in DOMAIN kw : ToLowerChar(text[i + j - 1]) = kw[j]

\* the failure condition as the specification states it
OutputClassifiedFailed(stdout, stderr) ==
  \/ (stderr # <<>> /\ (stdout = <<>> \/ MentionsErrorOrFail(stderr)))
  \/ stdout = <<>>

\* the fallback attempt ended in the catch block of line 106
FallbackAttemptFailed == ExecSettled /\ curlError # NoError

\* C9 as stated: after the external process has returned, the fallback attempt
\* fails if and only if (stderr is non-empty and (stdout is empty or stderr
\* mentions "error"/"fail")) or stdout is empty.
C9_Original_FailedIffClassified ==
  (ExecSettled /\ ~execReply.rejected)
    => (FallbackAttemptFailed = OutputClassifiedFailed(execReply.stdout, execReply.stderr))

\* C9 amended: after the external process has returned, the fallback attempt
\* fails if and only if (stderr is non-empty and (stdout is empty or stderr
\* mentions "error"/"fail")) or stdout is empty or stdout is not valid JSON; a
\* non-empty stderr with a non-empty stdout and no keyword is logged as
\* informational and the attempt then fails only when stdout is not valid JSON.
C9_FailedIffClassifiedOrUnparsable ==
  (ExecSettled /\ ~execReply.rejected)
    => /\ FallbackAttemptFailed =
            (\/ OutputClassifiedFailed(execReply.stdout, execReply.stderr)
             \/ ~JSONParse(execReply.stdout).ok)
       /\ (curlError.site \in {"stderr", "empty stdout"})
            = OutputClassifiedFailed(execReply.stdout, execReply.stderr)
       /\ (/\ execReply.stderr # <<>> /\ execReply.stdout # <<>>
           /\ ~MentionsErrorOrFail(execReply.stderr))
            => /\ Count(log, "curl stderr informational") = 1
               /\ (outcome.kind = "returned") = JSONParse(execReply.stdout).ok

C9_Witness ==
  /\ pc = "done" /\ ExecSettled
  /\ execReply = [rejected |-> FALSE, stdout |-> <<"1">>, stderr |-> <<"F", "a", "I", "l">>]
  /\ curlError.site = "stderr" /\ outcome.kind = "raised"

\* C10: a primary response whose status is not 2xx is never returned as
\* success: it becomes an error carrying the status code and status text, that
\* error starts the fallback instead of being raised at once, and it is raised
\* to the caller only if the fallback fails too (then it is that very error).
C10_Non2xxTriggersFallback ==
  (FetchSettled /\ ~reply.rejected /\ ~Is2xx(reply.status))
    => /\ fetchError = MkError("status", reply.status, reply.statusText)
       /\ Count(events, "fallback started") = 1
       /\ curlCommand.url = url
       /\ (pc # "done" => outcome = NoOutcome)
       /\ (pc = "done" =>
             /\ (outcome.kind = "raised") = FallbackFailed
             /\ (outcome.kind = "raised" => outcome.error = fetchError)
             /\ (outcome.kind # "raised" =>
                   outcome = [kind |-> "returned",
                              value |-> JSONParse(execReply.stdout).value,
                              error |-> NoError]))

C10_Witness ==
  /\ pc = "done" /\ FetchSettled /\ reply.status = 304 /\ reply.body = <<"1">>
  /\ outcome.kind = "raised"
  /\ outcome.error = MkError("status", 304, "Not Modified")

(***************************************************************************)
(* Properties of the proxy resolvers                                       *)
(***************************************************************************)
\* the bypass rule of the specification for hostname H and pattern list L:
\* some pattern is "*", or equals H, or is ".D" with H = D or H ending in ".D"
BypassRule(H, L) ==
  \E i \in DOMAIN L :
     \/ L[i] = <<"*">>
     \/ L[i] = H
     \/ \E D \in {SubSeq(L[i], 2, Len(L[i]))} :
          /\ L[i] = <<".">> \o D
          /\ (H = D \/ (Len(H) >= Len(D) + 1
                         /\ \A k \in 1..(Len(D) + 1) :
                              H[Len(H) - Len(D) - 1 + k] = (<<".">> \o D)[k]))

\* C5: for every hostname H (the hostname of the destination) and every
\* no-proxy text, shouldBypassProxy returns true exactly when the bypass rule
\* holds of H and the list L of comma-separated, trimmed entries of the text;
\* inNoProxy decides the same rule on the list the module keeps.
C5_BypassDecidedByRule ==
  probe.done =>
    /\ probe.fn = "shouldBypassProxy" =>
         probe.result = BypassRule(ParseURL(probe.url).hostname, NoProxyListOf(probe.noProxy))
    /\ probe.fn = "inNoProxy" =>
         probe.result = BypassRule(ParseURL(probe.url).hostname,
                                   ModNO_PROXY_LIST([n \in EnvVars |->
                                      IF n = "NO_PROXY" THEN Str(probe.noProxy) ELSE Undefined]))

C5_Witness ==
  /\ probe.done /\ probe.fn = "shouldBypassProxy" /\ probe.result
  /\ probe.url = <<"https://", "a">> /\ probe.noProxy = <<",", " ", ".", "a">>

\* the proxy URL and the no-proxy patterns a resolver request works with:
\* getDispatcher reads them from the environment at the request, dispatch
\* uses the constants of its module; an unset or empty list has no pattern
ConfiguredProxy ==
  IF resolved.by = "dispatch" THEN module.PROXY
  ELSE Nullish(env["HTTPS_PROXY"], env["HTTP_PROXY"])

ConfiguredPatterns ==
  IF resolved.by = "dispatch" THEN module.NO_PROXY_LIST
  ELSE LET np == Nullish(env["NO_PROXY"], env["no_proxy"])
       IN  IF Truthy(np) THEN NoProxyListOf(np.v) ELSE <<>>

ProxyUrlConfigured == Truthy(ConfiguredProxy) /\ ParseURL(ConfiguredProxy.v).ok

\* C6: with a proxy URL configured and a well-formed destination, the request
\* is routed through an agent for that proxy URL if and only if no no-proxy
\* pattern matches the destination hostname; on a match it goes direct and no
\* proxy agent is made for it.
C6_ProxyUnlessExcluded ==
  (resolved.by # "none" /\ ProxyUrlConfigured /\ ParseURL(resolved.url).ok)
    => LET match == BypassRule(ParseURL(resolved.url).hostname, ConfiguredPatterns)
       IN  /\ ~resolved.threw
           /\ (resolved.agent = ProxyAgentOf(ConfiguredProxy.v)) = ~match
           /\ match => (resolved.agent = DirectAgent /\ resolved.constructed = 0)

C6_Witness ==
  /\ resolved.by = "getDispatcher" /\ resolved.agent = DirectAgent
  /\ resolved.url = <<"https://", "B", ".", "A">>
  /\ env["HTTPS_PROXY"] = Str(ProxyA)
  /\ env["NO_PROXY"] = Str(<<".", "a", ",", " ", "b", ".", "b">>)

\* C7: when the proxy setting getDispatcher reads (HTTPS_PROXY ?? HTTP_PROXY)
\* is unset or empty, getDispatcher returns the direct path for every URL,
\* well-formed or not, and evaluates no no-proxy rule.
C7_NoProxyMeansDirect ==
  (resolved.by = "getDispatcher"
     /\ ~Truthy(Nullish(env["HTTPS_PROXY"], env["HTTP_PROXY"])))
    => /\ resolved.agent = DirectAgent
       /\ resolved.evals = 0
       /\ ~resolved.logged
       /\ ~resolved.threw
       /\ resolved.constructed = 0

C7_Witness ==
  /\ resolved.by = "getDispatcher" /\ resolved.agent = DirectAgent
  /\ ~ParseURL(resolved.url).ok
  /\ ~env["HTTPS_PROXY"].set /\ ~env["HTTP_PROXY"].set
  /\ env["NO_PROXY"] = Str(<<"*">>)

\* C8 as stated: given a malformed destination, a resolver that consults the
\* no-proxy rules does not raise, logs the anomaly, and routes through the
\* proxy whenever a proxy URL is configured, for every no-proxy list.
C8_MalformedUrlLoggedAndProxied ==
  (resolved.by # "none" /\ ~ParseURL(resolved.url).ok)
    => /\ (ProxyUrlConfigured \/ ~Truthy(ConfiguredProxy)) => ~resolved.threw
       /\ resolved.evals > 0 => resolved.logged
       /\ ProxyUrlConfigured => resolved.agent = ProxyAgentOf(ConfiguredProxy.v)

(***************************************************************************)
(* Properties of FigmaService.getAuthHeaders (checked under SpecAuth)      *)
(***************************************************************************)
\* the store was asked for the session's key and the lookup has settled
LookupSettled == figma.pc = "done" /\ redis.pc = "done"

XFigmaToken(key) == Headers(<< <<<<"X-Figma-Token">>, key>> >>)

\* C11: once the lookup of a session's key has settled, a failure of the
\* store or a missing key does not fail getAuthHeaders when a static API key
\* is configured: it returns the X-Figma-Token header with the static key;
\* and a key found in the store is the one returned, whatever the static key
C11_StoreFailureFallsBackToStaticKey ==
  LookupSettled =>
    /\ (redis.threw \/ redis.result = Undefined) /\ figma.apiKey # <<>>
         => ~figma.threw /\ figma.headers = XFigmaToken(figma.apiKey)
    /\ ~redis.threw /\ redis.result # Undefined
         => ~figma.threw /\ figma.headers = XFigmaToken(redis.result.v)

\* the store held a key while a different static key was configured
C11_Witness ==
  /\ LookupSettled
  /\ ~redis.threw /\ redis.result = Str(ApiKeyRedis)
  /\ figma.apiKey = ApiKeyStatic
  /\ figma.headers = XFigmaToken(ApiKeyRedis)


(***************************************************************************)
(* Properties of formatHeadersForCurl (checked under SpecHeaders)          *)
(***************************************************************************)
\* a text the shell keeps in one double-quoted stretch
ShellSafe(text) == \A i \in DOMAIN text : text[i] # "\""

PrimaryBodyUnparsable ==
  FetchSettled /\ ~reply.rejected /\ Is2xx(reply.status) /\ ~JSONParse(reply.body).ok

\* the external process returned output that reached JSON.parse and did not
\* parse
FallbackStdoutUnparsable ==
  /\ ExecSettled /\ ~execReply.rejected
  /\ ~StderrIsError(execReply.stdout, execReply.stderr)
  /\ execReply.stdout # <<>>
  /\ ~JSONParse(execReply.stdout).ok

\* C13 as stated: a body that does not parse surfaces a parse error to the
\* caller on both paths: the call raises the primary's parse error when the
\* primary body does not parse, and the fallback's parse error when the
\* fallback's stdout does not parse.
C13_Original_ParseErrorSurfaces ==
  pc = "done" =>
    /\ PrimaryBodyUnparsable
         => outcome.kind = "raised" /\ outcome.error.site = "response.json"
    /\ FallbackStdoutUnparsable
         => outcome.kind = "raised" /\ outcome.error.site = "JSON.parse"

\* C13 amended: a body that does not parse fails its attempt on both paths.
\* A primary body that does not parse starts the fallback, and the primary's
\* parse error reaches the caller exactly when the fallback fails too; a
\* fallback stdout that does not parse is logged as the fallback's failure
\* and the caller gets the error caught from the primary attempt, which is a
\* parse error only when the primary failed by one.
C13_ParseFailureFailsTheAttempt ==
  pc = "done" =>
    /\ PrimaryBodyUnparsable
         => /\ fetchError.site = "response.json"
            /\ Count(events, "fallback started") = 1
            /\ (outcome.kind = "raised") = FallbackFailed
            /\ outcome.kind = "raised" => outcome.error = fetchError
    /\ FallbackStdoutUnparsable
         => /\ curlError.site = "JSON.parse"
            /\ Count(log, "curl fallback also failed") = 1
            /\ outcome.kind = "raised"
            /\ outcome.error = fetchError
            /\ outcome.error.site \in PrimarySites
            /\ (outcome.error.site = "response.json") = PrimaryBodyUnparsable

\* a 404 followed by curl output that is not JSON: the caller gets the
\* status error
C13_Witness ==
  /\ pc = "done"
  /\ reply.status = 404
  /\ FallbackStdoutUnparsable /\ execReply.stdout = <<"[", "1">>
  /\ outcome.kind = "raised" /\ outcome.error.site = "status"


\* the fallback was started, so the curl process has made its request
FallbackStarted == Count(events, "fallback started") > 0

\* C14: the request the fallback makes is the request of the call: the same
\* url, method, headers and body as fetch was given (line 62), for every
\* url and options.
C14_FallbackIssuesSameRequest ==
  FallbackStarted =>
    /\ sent[Len(sent)].transport = "exec"
    /\ CurlRequestOf(sent[Len(sent)].command) = RequestOf(url, options)


(***************************************************************************)
(* Properties of concurrent calls (checked under SpecConc)                 *)
(***************************************************************************)
\* a primary answer that makes the call return
AnswerOk(r) == ~r.rejected /\ Is2xx(r.status) /\ JSONParse(r.body).ok

\* a fallback answer that makes the call return
ExecAnswerOk(ex) ==
  /\ ~ex.rejected /\ ex.stdout # <<>> /\ JSONParse(ex.stdout).ok
  /\ ~(ex.stderr # <<>> /\ MentionsErrorOrFail(ex.stderr))

\* C15: in every interleaving of the calls in flight, a settled call has run
\* its own attempt chain (its own primary request unless the proxy agent
\* could not be built, its own fallback request iff its primary failed) and
\* its outcome is the one its own transports' answers determine, whatever
\* the other calls were answered; no request is shared between calls
C15_ConcurrentCallsIndependent ==
  \A c \in DOMAIN conc.frames :
    LET f == conc.frames[c]
        w == conc.wire[c]
        noAgent == f.fetchError.site = "ProxyAgent"
        primaryOk == ~noAgent /\ AnswerOk(w.primary)
    IN  f.pc = "done" =>
          /\ w.fetches = (IF noAgent THEN 0 ELSE 1)
          /\ w.execs = (IF primaryOk THEN 0 ELSE 1)
          /\ f.reply = w.primary /\ f.execReply = w.exec
          /\ f.events = <<"primary started", "primary settled">>
                          \o (IF primaryOk THEN <<>>
                              ELSE <<"fallback started", "fallback settled">>)
          /\ f.outcome.kind = (IF primaryOk \/ ExecAnswerOk(w.exec) THEN "returned"
                               ELSE "raised")
          /\ f.outcome.value = (IF primaryOk THEN JSONParse(w.primary.body).value
                                ELSE IF ExecAnswerOk(w.exec) THEN JSONParse(w.exec.stdout).value
                                ELSE NoJson)
          /\ f.outcome.kind = "raised" /\ ~noAgent /\ ~w.primary.rejected
               => IF Is2xx(w.primary.status) THEN f.outcome.error.site = "response.json"
                  ELSE f.outcome.error.site = "status"
                         /\ f.outcome.error.status = w.primary.status

\* two calls for the same url were in flight together and settled
\* differently: one returned its primary's value, the other raised
C15_Witness ==
  /\ MaxInFlight >= 2
  /\ conc.frames # <<>>
  /\ conc.frames[1].pc = "done" /\ conc.frames[2].pc = "done"
  /\ conc.frames[1].url = conc.frames[2].url
  /\ conc.frames[1].outcome.kind = "returned" /\ conc.frames[1].events = <<"primary started", "primary settled">>
  /\ conc.frames[2].outcome.kind = "raised" /\ conc.frames[2].outcome.error.status = 404


(***************************************************************************)
(* Further properties of the resolvers (checked under SpecResolver)        *)
(***************************************************************************)
\* C16: the transport agents are constructed at start-up only; a resolver
\* request selects one of them and constructs none, so the number of agents
\* constructed since start-up stays 0 however many requests are resolved.
C16_AgentsConstructedOnlyAtStartup ==
  agentsConstructed = 0 /\ resolved.constructed = 0

\* the patterns of the no-proxy variable set in the environment now
LivePatterns ==
  LET np == Nullish(env["NO_PROXY"], env["no_proxy"])
  IN  IF Truthy(np) THEN NoProxyListOf(np.v) ELSE <<>>

\* the request is excluded by the no-proxy patterns of the environment now
LiveExcluded ==
  ParseURL(resolved.url).ok /\ BypassRule(ParseURL(resolved.url).hostname, LivePatterns)

\* C17: the decision of a resolver request is the one the environment at the
\* time of the request determines: what getDispatcher makes of process.env
\* now, and what dispatch would make of a module loaded from process.env
\* now, even when the environment was changed after start-up.
C17_DecisionFollowsLiveEnvironment ==
  (resolved.by # "none" /\ ~resolved.threw)
    => resolved.agent = IF resolved.by = "getDispatcher"
                        THEN getDispatcher(resolved.url, env).agent
                        ELSE dispatch(resolved.url, ModuleLoad(env)).agent

\* the proxy URLs of the environment now, HTTPS-specific variables before
\* the generic ones, either spelling
LiveProxyUrls ==
  LET urlsOf(names) == {env[n].v : n \in {m \in names : Truthy(env[m]) /\ ParseURL(env[m].v).ok}}
      https == urlsOf({"HTTPS_PROXY", "https_proxy"})
  IN  IF https # {} THEN https ELSE urlsOf({"HTTP_PROXY", "http_proxy"})

\* C18: whenever HTTPS_PROXY, https_proxy, HTTP_PROXY or http_proxy holds a
\* proxy URL, a request to a well-formed destination that no no-proxy
\* pattern excludes is routed through a proxy agent for the URL of highest
\* priority: an HTTPS-specific one if there is one, a generic one otherwise.
C18_ProxyFromAnyCaseVariant ==
  (resolved.by # "none" /\ ~resolved.threw /\ ParseURL(resolved.url).ok
     /\ LiveProxyUrls # {} /\ ~LiveExcluded)
    => \E p \in LiveProxyUrls : resolved.agent = ProxyAgentOf(p)

\* C19: no failure is swallowed without a log line: a failed primary attempt
\* is logged before the fallback starts, a failed fallback attempt is logged
\* before the call raises, and a resolver request whose URL or origin cannot
\* be parsed while no-proxy rules are configured logs the failure to
\* evaluate them.
C19_EveryFailureLogged ==
  /\ Count(events, "fallback started") > 0 => Count(log, "initial fetch failed") = 1
  /\ (pc = "done" /\ curlError # NoError) => Count(log, "curl fallback also failed") = 1
  /\ (resolved.by # "none" /\ ~ParseURL(resolved.url).ok /\ Truthy(ConfiguredProxy)
        /\ ConfiguredPatterns # <<>>)
       => resolved.logged /\ Count(log, "error checking NO_PROXY rules") = 1


(***************************************************************************)
(* Termination of fetchWithRetry (checked under SpecLive)                  *)
(***************************************************************************)
\* the call has settled with exactly one outcome, a value or an error
SettledOneWay ==
  \/ outcome.kind = "returned" /\ outcome.error = NoError
  \/ outcome.kind = "raised" /\ outcome.value = NoJson /\ outcome.error # NoError

\* C20: a call whose transports settle settles itself in the end; it
\* settles once, with a returned value or a raised error and never both, and
\* it raises if and only if the primary and the fallback attempt both failed.
C20_SettlesWithOneOutcome ==
  /\ [](pc = "done" => SettledOneWay)
  /\ [](pc = "done" => ((outcome.kind = "raised") = (PrimaryFailed /\ FallbackFailed)))
  /\ [](pc # "done" => outcome = NoOutcome)
  /\ [][outcome # NoOutcome => outcome' = outcome]_vars
  /\ (pc \in {"fetch", "exec"}) ~> (pc = "done")

\* both transports rejected and the call raised
C20_Witness ==
  /\ pc = "done" /\ reply.rejected /\ execReply.rejected
  /\ outcome.kind = "raised" /\ outcome.error.site = "fetch"


(***************************************************************************)
(* The caller's dispatcher (checked under Spec)                            *)
(***************************************************************************)
\* C21: when options.dispatcher is given, the primary attempt uses exactly
\* that dispatcher whatever the environment holds, and the resolver is not
\* consulted: no no-proxy rule is evaluated, nothing is logged about them,
\* no proxy agent is constructed and none can fail to be; when none is given
\* the dispatcher is the one getDispatcher resolves for the url.
C21_ExplicitDispatcherTakesPrecedence ==
  pc # "idle" =>
    IF options.dispatcher # NoAgent
    THEN /\ dispatcher = options.dispatcher
         /\ noProxyEvals = 0
         /\ agentsConstructed = 0
         /\ Count(log, "error checking NO_PROXY rules") = 0
         /\ fetchError.site # "ProxyAgent"
         /\ Count(events, "primary started") = 1
         /\ sent[1].transport = "fetch"
    ELSE LET gd == getDispatcher(url, env)
         IN  /\ dispatcher = IF gd.threw THEN NoAgent ELSE gd.agent
             /\ noProxyEvals = gd.evals
             /\ agentsConstructed = gd.constructed

\* a proxy is configured for the destination and the caller's dispatcher
\* was used all the same
C21_Witness ==
  /\ pc = "done"
  /\ options.dispatcher = CustomAgent /\ dispatcher = CustomAgent
  /\ getDispatcher(url, env).agent.kind = "proxy"
  /\ agentsConstructed = 0


(***************************************************************************)
(* Properties of RedisService (checked under SpecRedis and SpecAuth)       *)
(***************************************************************************)
\* C22: after any sequence of client events isConnected is true exactly
\* when the last of them was connect or ready (and false before the first);
\* the connected getter is true only with isConnected true and the status
\* ready, so it is false when the last event was error, close or end.
C22_FlagFollowsLastEvent ==
  /\ redis.isConnected = (redis.lastEvent \in {"connect", "ready"})
  /\ connected(redis) => (redis.isConnected /\ redis.status = "ready")
  /\ redis.lastEvent \in {"error", "close", "end"} => ~connected(redis)

\* an error arrived while the client was ready: the status is still ready
\* and the getter is false
C22_Witness ==
  /\ redis.lastEvent = "error" /\ redis.status = "ready"
  /\ redis.eventsSeen = 2
  /\ ~redis.isConnected /\ ~connected(redis)


\* getFigmaApiKey was entered
GetKeyRan == redis.op = "getFigmaApiKey"

\* it was entered with the flag down and the client status 'end'
EnteredEnded == ~redis.before.isConnected /\ redis.before.status = "end"

\* getFigmaApiKey connects first exactly when entered with the flag down and
\* the status 'end', looks the key up unless the connect failed, and
\* rethrows a connect or lookup error after logging it, returning nothing
GetKeyConnectsAndRethrows ==
  GetKeyRan =>
    /\ redis.connects = (IF EnteredEnded THEN 1 ELSE 0)
    /\ redis.pc = "done" =>
         /\ redis.gets = (IF Count(log, "failed to connect to Redis") = 1 THEN 0 ELSE 1)
         /\ redis.threw = (redis.answer = "rejected")
         /\ redis.threw => /\ redis.result = Undefined
                           /\ Count(log, "error retrieving API key for session") = 1

\* C23 as stated: getFigmaApiKey calls connect() before the lookup exactly
\* when it is not connected and the status is 'end' and otherwise looks up
\* directly; it returns the stored value when the client has one for the
\* key, null when it has none, and rethrows after logging any connect or
\* lookup error.
C23_Original_ReturnsStoredValue ==
  /\ GetKeyConnectsAndRethrows
  /\ (GetKeyRan /\ redis.pc = "done" /\ ~redis.threw)
       => redis.result = redis.got

\* C23 amended: as stated, except that the stored value is returned when it
\* is a non-empty string, and null is returned when the key is absent or its
\* value is the empty string.
C23_ReturnsNonEmptyStoredValue ==
  /\ GetKeyConnectsAndRethrows
  /\ (GetKeyRan /\ redis.pc = "done" /\ ~redis.threw)
       => redis.result = (IF Truthy(redis.got) THEN redis.got ELSE Undefined)

\* entered after the connection had ended: connected first, then found the key
C23_Witness ==
  /\ GetKeyRan /\ redis.pc = "done" /\ EnteredEnded
  /\ redis.connects = 1 /\ redis.gets = 1
  /\ redis.result = Str(ApiKeyRedis) /\ redis.isConnected


\* C24: useOAuth is true only with a non-empty OAuth token, and in that mode
\* getAuthHeaders returns the Authorization header `Bearer <token>`, with or
\* without a session hash, and leaves the Redis service alone: no method of
\* it is entered and no client call is made.
C24_OAuthNeverQueriesStore ==
  figma.useOAuth =>
    /\ figma.oauthToken # <<>>
    /\ figma.pc # "lookup"
    /\ figma.pc = "done" =>
         /\ ~figma.threw
         /\ figma.headers
              = Headers(<< <<<<"Authorization">>, <<"Bearer", " ">> \o figma.oauthToken>> >>)
    /\ redis.op = "none" /\ redis.pc = "idle"
    /\ redis.connects = 0 /\ redis.gets = 0

\* OAuth mode with a session hash and a static key configured as well
C24_Witness ==
  /\ figma.useOAuth /\ figma.pc = "done"
  /\ figma.sessionHash = Str(<<"s">>)
  /\ figma.apiKey = ApiKeyStatic
  /\ figma.headers.entries[1][1] = <<"Authorization">>



\* the text names the endpoint: the endpoint is a contiguous part of it
Names(message, endpoint) ==
  \E i \in 1..Len(message) :
     /\ i + Len(endpoint) - 1 <= Len(message)
     /\ SubSeq(message, i, i + Len(endpoint) - 1) = endpoint

\* the service is not in OAuth mode and neither the store nor the static
\* configuration gave a key
NoKeyYielded ==
  /\ ~figma.useOAuth
  /\ figma.apiKey = <<>>
  /\ ~(redis.op = "getFigmaApiKey" /\ Truthy(redis.result))

\* C25: FigmaService.request resolves the credentials before any HTTP
\* attempt: a primary or fallback attempt exists only after getAuthHeaders
\* returned headers, and it carries them to the base URL followed by the
\* endpoint; when the service is not in OAuth mode and neither the store nor
\* the static configuration yields a key, the request fails with an error
\* naming the endpoint and no primary or fallback attempt is made.
C25_CredentialsBeforeAnyAttempt ==
  /\ (pc # "idle" \/ sent # <<>> \/ events # <<>> \/ callsMade # 0) =>
        /\ figma.pc = "done"
        /\ ~figma.threw
        /\ options.headers = figma.headers
        /\ figma.headers.defined
        /\ url = baseUrl \o figma.endpoint
  /\ (figma.pc = "done" /\ NoKeyYielded) =>
        /\ figma.threw
        /\ RequestSettled
        /\ RequestOutcome.kind = "raised"
        /\ Names(RequestOutcome.message, figma.endpoint)
        /\ pc = "idle"
        /\ callsMade = 0
        /\ sent = <<>>
        /\ events = <<>>
  /\ (figma.pc = "done" /\ figma.threw) => NoKeyYielded

\* a request with a session hash whose lookup found nothing, on a service
\* without a static key: it has failed and nothing was sent
C25_Witness ==
  /\ figma.pc = "done"
  /\ figma.threw
  /\ figma.endpoint = <<"/", "files", "/", "k">>
  /\ figma.sessionHash = Str(<<"s">>)
  /\ redis.gets = 1
  /\ redis.answer = "ok"
  /\ RequestSettled
  /\ sent = <<>>


\* C26: connect() calls the client's connect only when entered with
\* isConnected false and does nothing when entered connected; disconnect()
\* calls the client's quit only when entered with isConnected true or a
\* client status other than 'end' and does nothing once the connection has
\* ended; each throws exactly when its client call was rejected, after
\* logging the failure.
C26_ConnectAndDisconnectGuards ==
  /\ redis.op = "connect" =>
       /\ redis.connects = (IF ~redis.before.isConnected THEN 1 ELSE 0)
       /\ redis.quits = 0
       /\ redis.before.isConnected =>
            /\ redis.pc = "idle" /\ ~redis.threw /\ redis.answer = "none"
            /\ Count(log, "successfully connected to Redis") = 0
       /\ (redis.pc = "idle" /\ ~redis.before.isConnected) =>
            /\ redis.threw = (redis.answer = "rejected")
            /\ Count(log, "failed to connect to Redis") = (IF redis.threw THEN 1 ELSE 0)
            /\ Count(log, "successfully connected to Redis") = (IF redis.threw THEN 0 ELSE 1)
  /\ redis.op = "disconnect" =>
       LET needed == redis.before.isConnected \/ redis.before.status # "end"
       IN  /\ redis.quits = (IF needed THEN 1 ELSE 0)
           /\ redis.connects = 0
           /\ ~needed =>
                /\ redis.pc = "idle" /\ ~redis.threw /\ redis.answer = "none"
                /\ Count(log, "successfully disconnected from Redis") = 0
           /\ (redis.pc = "idle" /\ needed) =>
                /\ redis.threw = (redis.answer = "rejected")
                /\ Count(log, "failed to disconnect from Redis") = (IF redis.threw THEN 1 ELSE 0)
                /\ Count(log, "successfully disconnected from Redis")
                     = (IF redis.threw THEN 0 ELSE 1)

\* a second connect() after a first one succeeded and no event since: it
\* was entered connected and made no client call
C26_Witness ==
  /\ callsMade = 2
  /\ redis.op = "connect" /\ redis.pc = "idle"
  /\ redis.before.isConnected /\ redis.before.status = "ready"
  /\ redis.connects = 0
  /\ redis.eventsSeen = 2

=============================================================================
